---- MODULE Spec2Model ----
(***************************************************************************)
(* A model of the school-management backend (Flask handlers over a         *)
(* relational store).  The state is the store, one variable per table,     *)
(* plus the last request's response.  Every handler is one action: a       *)
(* request runs to completion (commit or rollback) in one step.            *)
(*                                                                         *)
(* The handlers read User.role, a plain string column of the User schema   *)
(* the views were written against; users[u].role models it.                *)
(*                                                                         *)
(* Python None is the string None in string columns and NoId in integer    *)
(* columns.  A JSON request body is a function whose DOMAIN is the set of  *)
(* keys the body carries, so that `'k' in data` is "k" \in DOMAIN data.    *)
(* Strings that the code transforms (the day of the week) are sequences    *)
(* of one-character strings.                                               *)
(***************************************************************************)
EXTENDS Integers, Sequences, FiniteSets, TLC

VARIABLES users, classes, subjects, students, teacher_subjects, timetable,
          assessments, performances, sessions, records, resp, pc

vars == <<users, classes, subjects, students, teacher_subjects, timetable,
          assessments, performances, sessions, records, resp, pc>>

-----------------------------------------------------------------------------
(* Bounds of the model.                                                    *)

\* the rows the timetable may hold
MaxTimetable == 2

\* the requests made under the academics, performance and attendance
\* specifications
MaxRequests == 3

-----------------------------------------------------------------------------
(* Values.                                                                 *)

None == "None"

NoId == -1

EmptyDict == [k \in {} |-> None]

has(data, k) == k \in DOMAIN data

\* dict.get(k) for an integer-valued key
get_id(data, k) == IF has(data, k) THEN data[k] ELSE NoId

\* dict.get(k) for a string-valued key
get_str(data, k) == IF has(data, k) THEN data[k] ELSE None

\* the primary key the store gives a new row: SQLite's rowid, max + 1
new_id(table) ==
    IF DOMAIN table = {} THEN 1
    ELSE (CHOOSE i \in DOMAIN table : \A j \in DOMAIN table : j <= i) + 1

\* the table with one row added under a fresh primary key
insert(table, row) == (new_id(table) :> row) @@ table

\* the table without the rows whose primary key is in ids
delete_rows(table, ids) == [i \in DOMAIN table \ ids |-> table[i]]

-----------------------------------------------------------------------------
(* str.capitalize(): first character upper-cased, the rest lower-cased.    *)

lower_letters ==
    <<"a","b","c","d","e","f","g","h","i","j","k","l","m",
      "n","o","p","q","r","s","t","u","v","w","x","y","z">>

upper_letters ==
    <<"A","B","C","D","E","F","G","H","I","J","K","L","M",
      "N","O","P","Q","R","S","T","U","V","W","X","Y","Z">>

upper(c) ==
    IF \E i \in 1..Len(lower_letters) : lower_letters[i] = c
    THEN upper_letters[CHOOSE i \in 1..Len(lower_letters) : lower_letters[i] = c]
    ELSE c

lower(c) ==
    IF \E i \in 1..Len(upper_letters) : upper_letters[i] = c
    THEN lower_letters[CHOOSE i \in 1..Len(upper_letters) : upper_letters[i] = c]
    ELSE c

capitalize(s) == [i \in 1..Len(s) |-> IF i = 1 THEN upper(s[i]) ELSE lower(s[i])]

Monday    == <<"M","o","n","d","a","y">>
Tuesday   == <<"T","u","e","s","d","a","y">>

week_days ==
    {Monday, Tuesday,
     <<"W","e","d","n","e","s","d","a","y">>, <<"T","h","u","r","s","d","a","y">>,
     <<"F","r","i","d","a","y">>, <<"S","a","t","u","r","d","a","y">>,
     <<"S","u","n","d","a","y">>}

-----------------------------------------------------------------------------
(* The response of the last request: the handler, the caller, the HTTP     *)
(* status, the row the request addressed or created, and what the body     *)
(* of the response tells.  pc is the position of the clients that issue    *)
(* the requests; no handler reads or writes it.                            *)

no_response == [op |-> "none", caller |-> NoId, status |-> 0, target |-> NoId, out |-> None]

respond(op, caller, status, target, out) ==
    resp' = [op |-> op, caller |-> caller, status |-> status, target |-> target, out |-> out]

\* User.query.get(get_jwt_identity()): the caller's row, if it still exists
is_user(caller) == caller \in DOMAIN users

role_in(caller, roles) == users[caller].role \in roles

-----------------------------------------------------------------------------
(* views/timetable.py                                                      *)

timetable_fields == {"day", "period", "subject_id", "class_id", "teacher_id"}

\* line 22 reads data['period'] whether or not the key is there:
\* `A and B or C or D` is `(A and B) or C or D`, so a body without 'period'
\* raises KeyError, outside any try block
validate_timetable_raises(data) == ~has(data, "period")

\* the keys of the errors dict (None when empty)
validate_timetable_data(data, is_update) ==
    {f \in timetable_fields : ~is_update /\ ~has(data, f)}
    \cup {f \in {"day"} : has(data, "day") /\ capitalize(data.day) \notin week_days}
    \cup {f \in {"period"} : data.period < 1 \/ data.period > 8}
    \cup {f \in {"subject_id"} : has(data, "subject_id") /\ data.subject_id \notin DOMAIN subjects}
    \cup {f \in {"class_id"} : has(data, "class_id") /\ data.class_id \notin DOMAIN classes}
    \cup {f \in {"teacher_id"} : has(data, "teacher_id") /\ data.teacher_id \notin DOMAIN users}

\* Timetable(...) of create_timetable_entry
new_timetable_entry(data) ==
    [day        |-> capitalize(data.day),
     period     |-> data.period,
     room       |-> get_str(data, "room"),
     subject_id |-> data.subject_id,
     class_id   |-> data.class_id,
     teacher_id |-> data.teacher_id]

\* The Timetable table carries no unique constraint (models.py), so the
\* insert never raises IntegrityError: the 409 branch is never taken.
create_timetable_entry(caller, data) ==
    /\ new_id(timetable) <= MaxTimetable
    /\ UNCHANGED <<users, classes, subjects, students, teacher_subjects,
                   assessments, performances, sessions, records>>
    /\ IF ~is_user(caller)
       THEN /\ respond("create_timetable_entry", caller, 500, NoId, None)
            /\ UNCHANGED timetable
       ELSE IF ~role_in(caller, {"admin", "headteacher"})
       THEN /\ respond("create_timetable_entry", caller, 403, NoId, None)
            /\ UNCHANGED timetable
       ELSE IF validate_timetable_raises(data)
       THEN /\ respond("create_timetable_entry", caller, 500, NoId, None)
            /\ UNCHANGED timetable
       ELSE IF validate_timetable_data(data, FALSE) # {}
       THEN /\ respond("create_timetable_entry", caller, 400, NoId, None)
            /\ UNCHANGED timetable
       ELSE /\ timetable' = insert(timetable, new_timetable_entry(data))
            /\ respond("create_timetable_entry", caller, 201, new_id(timetable), None)

\* the partial update with the day stored as it was sent
updated_timetable_entry_raw_day(entry, data) ==
    [day        |-> IF has(data, "day") THEN data.day ELSE entry.day,
     period     |-> IF has(data, "period") THEN data.period ELSE entry.period,
     room       |-> IF has(data, "room") THEN data.room ELSE entry.room,
     subject_id |-> IF has(data, "subject_id") THEN data.subject_id ELSE entry.subject_id,
     class_id   |-> IF has(data, "class_id") THEN data.class_id ELSE entry.class_id,
     teacher_id |-> IF has(data, "teacher_id") THEN data.teacher_id ELSE entry.teacher_id]

\* the partial update of lines 200-211
updated_timetable_entry(entry, data) ==
    [day        |-> IF has(data, "day") THEN capitalize(data.day) ELSE entry.day,
     period     |-> IF has(data, "period") THEN data.period ELSE entry.period,
     room       |-> IF has(data, "room") THEN data.room ELSE entry.room,
     subject_id |-> IF has(data, "subject_id") THEN data.subject_id ELSE entry.subject_id,
     class_id   |-> IF has(data, "class_id") THEN data.class_id ELSE entry.class_id,
     teacher_id |-> IF has(data, "teacher_id") THEN data.teacher_id ELSE entry.teacher_id]

update_timetable_entry(caller, entry_id, data) ==
    /\ UNCHANGED <<users, classes, subjects, students, teacher_subjects,
                   assessments, performances, sessions, records>>
    /\ IF ~is_user(caller)
       THEN /\ respond("update_timetable_entry", caller, 500, entry_id, None)
            /\ UNCHANGED timetable
       ELSE IF ~role_in(caller, {"admin", "headteacher"})
       THEN /\ respond("update_timetable_entry", caller, 403, entry_id, None)
            /\ UNCHANGED timetable
       ELSE IF entry_id \notin DOMAIN timetable
       THEN /\ respond("update_timetable_entry", caller, 404, entry_id, None)
            /\ UNCHANGED timetable
       ELSE IF validate_timetable_raises(data)
       THEN /\ respond("update_timetable_entry", caller, 500, entry_id, None)
            /\ UNCHANGED timetable
       ELSE IF validate_timetable_data(data, TRUE) # {}
       THEN /\ respond("update_timetable_entry", caller, 400, entry_id, None)
            /\ UNCHANGED timetable
       ELSE /\ timetable' = [timetable EXCEPT
                                ![entry_id] = updated_timetable_entry(@, data)]
            /\ respond("update_timetable_entry", caller, 200, entry_id, None)

delete_timetable_entry(caller, entry_id) ==
    /\ UNCHANGED <<users, classes, subjects, students, teacher_subjects,
                   assessments, performances, sessions, records>>
    /\ IF ~is_user(caller)
       THEN /\ respond("delete_timetable_entry", caller, 500, entry_id, None)
            /\ UNCHANGED timetable
       ELSE IF ~role_in(caller, {"admin", "headteacher"})
       THEN /\ respond("delete_timetable_entry", caller, 403, entry_id, None)
            /\ UNCHANGED timetable
       ELSE IF entry_id \notin DOMAIN timetable
       THEN /\ respond("delete_timetable_entry", caller, 404, entry_id, None)
            /\ UNCHANGED timetable
       ELSE /\ timetable' = delete_rows(timetable, {entry_id})
            /\ respond("delete_timetable_entry", caller, 200, entry_id, None)

\* teacher_conflict without the period in its filter
teacher_conflict_any_period(data) ==
    {e \in DOMAIN timetable :
        /\ timetable[e].day = capitalize(data.day)
        /\ timetable[e].teacher_id = data.teacher_id}

\* Timetable.query.filter_by(day=..., period=..., teacher_id=...)
teacher_conflict(data) ==
    {e \in DOMAIN timetable :
        /\ timetable[e].day = capitalize(data.day)
        /\ timetable[e].period = data.period
        /\ timetable[e].teacher_id = data.teacher_id}

\* Timetable.query.filter_by(day=..., period=..., class_id=...)
class_conflict(data) ==
    {e \in DOMAIN timetable :
        /\ timetable[e].day = capitalize(data.day)
        /\ timetable[e].period = data.period
        /\ timetable[e].class_id = data.class_id}

\* `if 'room' in data and data['room']`: None and '' are falsy
room_given(data) == has(data, "room") /\ data.room \notin {None, ""}

\* Timetable.query.filter_by(day=..., period=..., room=...), when room is given
room_conflict(data) ==
    IF room_given(data)
    THEN {e \in DOMAIN timetable :
            /\ timetable[e].day = capitalize(data.day)
            /\ timetable[e].period = data.period
            /\ timetable[e].room = data.room}
    ELSE {}

\* .first(): one row of the query, no ORDER BY: any of them; NoId for no row
first(rows) == IF rows = {} THEN {NoId} ELSE rows

\* the conflicts list, in the order the handler appends
conflict_list(t, c, r) ==
    (IF t # NoId THEN <<[type |-> "teacher", conflicting_entry |-> t]>> ELSE <<>>)
    \o (IF c # NoId THEN <<[type |-> "class", conflicting_entry |-> c]>> ELSE <<>>)
    \o (IF r # NoId THEN <<[type |-> "room", conflicting_entry |-> r]>> ELSE <<>>)

check_timetable_conflicts(caller, data) ==
    /\ UNCHANGED <<users, classes, subjects, students, teacher_subjects, timetable,
                   assessments, performances, sessions, records>>
    /\ IF ~is_user(caller)
       THEN respond("check_timetable_conflicts", caller, 500, NoId, None)
       ELSE IF ~role_in(caller, {"admin", "headteacher"})
       THEN respond("check_timetable_conflicts", caller, 403, NoId, None)
       ELSE IF validate_timetable_raises(data)
       THEN respond("check_timetable_conflicts", caller, 500, NoId, None)
       ELSE IF validate_timetable_data(data, FALSE) # {}
       THEN respond("check_timetable_conflicts", caller, 400, NoId, None)
       ELSE \E t \in first(teacher_conflict(data)),
               c \in first(class_conflict(data)),
               r \in first(room_conflict(data)) :
              respond("check_timetable_conflicts", caller, 200, NoId,
                      [candidate     |-> data,
                       conflicts     |-> conflict_list(t, c, r),
                       has_conflicts |-> Len(conflict_list(t, c, r)) > 0])


-----------------------------------------------------------------------------
(* The timetable specification: the four timetable handlers over a fixed   *)
(* set of users, classes and subjects.                                     *)

\* a key that may be missing from the body
opt(k, values) == {EmptyDict} \cup {k :> v : v \in values}

\* a body without one of its keys
without(data, k) == [j \in DOMAIN data \ {k} |-> data[j]]

monday_lc == <<"m","o","n","d","a","y">>

tuesday_uc == <<"T","U","E","S","D","A","Y">>

bad_day == <<"F","u","n","d","a","y">>

timetable_body(d, p, r, s, c, t) ==
    ("day" :> d) @@ ("period" :> p) @@ r @@
    ("subject_id" :> s) @@ ("class_id" :> c) @@ ("teacher_id" :> t)

\* bodies that pass validation in the initial store
valid_timetable_bodies(rooms) ==
    {timetable_body(d, p, r, 1, c, t) :
        d \in {monday_lc, tuesday_uc}, p \in {1, 8}, r \in opt("room", rooms),
        c \in {1, 2}, t \in {2, 3}}

\* one body with each required key dropped, and with each field invalid
bad_timetable_bodies ==
    {without(timetable_body(monday_lc, 1, "room" :> "R1", 1, 1, 2), f) :
        f \in timetable_fields}
    \cup {timetable_body(bad_day, 1, EmptyDict, 1, 1, 2),
          timetable_body(monday_lc, 0, EmptyDict, 1, 1, 2),
          timetable_body(monday_lc, 9, EmptyDict, 1, 1, 2),
          timetable_body(monday_lc, 1, EmptyDict, 9, 1, 2),
          timetable_body(monday_lc, 1, EmptyDict, 1, 9, 2),
          timetable_body(monday_lc, 1, EmptyDict, 1, 1, 9)}

\* partial updates: 'period' with at most one other key, and bodies without it
timetable_update_bodies ==
    {("period" :> p) @@ x :
        p \in {1, 8},
        x \in opt("day", {monday_lc, tuesday_uc, bad_day})
              \cup opt("room", {None, "R1"})
              \cup opt("subject_id", {9})
              \cup opt("class_id", {1, 2})
              \cup opt("teacher_id", {2, 3})}
    \cup {"period" :> 0, "period" :> 9, "room" :> "R1", "day" :> monday_lc}

\* the callers: every body from the admin, one body from the others
timetable_requests(bodies) ==
    {<<1, data>> : data \in bodies}
    \cup {<<c, timetable_body(monday_lc, 1, "room" :> "R1", 1, 1, 2)>> : c \in {2, 3}}

timetable_update_requests ==
    {<<1, data>> : data \in timetable_update_bodies}
    \cup {<<c, ("period" :> 8) @@ ("room" :> "R1")>> : c \in {2, 3}}

initial_users ==
    (1 :> [role |-> "admin"]) @@ (2 :> [role |-> "headteacher"]) @@
    (3 :> [role |-> "teacher"])

initial_classes ==
    (1 :> [name |-> "Grade 4", stream |-> "A", academic_year |-> "2024", class_teacher_id |-> 3])
    @@ (2 :> [name |-> "Grade 4", stream |-> "B", academic_year |-> "2024", class_teacher_id |-> NoId])

initial_subjects ==
    (1 :> [name |-> "Mathematics", code |-> "MATH101", is_core |-> TRUE])

Init ==
    /\ users = initial_users
    /\ classes = initial_classes
    /\ subjects = initial_subjects
    /\ students = EmptyDict
    /\ teacher_subjects = EmptyDict
    /\ timetable = EmptyDict
    /\ assessments = EmptyDict
    /\ performances = EmptyDict
    /\ sessions = EmptyDict
    /\ records = EmptyDict
    /\ resp = no_response
    /\ pc = EmptyDict

CreateTimetableEntry ==
    \E r \in timetable_requests(valid_timetable_bodies({"R1"}) \cup bad_timetable_bodies) :
        create_timetable_entry(r[1], r[2]) /\ UNCHANGED pc

UpdateTimetableEntry ==
    \E r \in timetable_update_requests, entry_id \in 1..MaxTimetable :
        update_timetable_entry(r[1], entry_id, r[2]) /\ UNCHANGED pc

DeleteTimetableEntry ==
    \E caller \in DOMAIN initial_users, entry_id \in 1..MaxTimetable :
        delete_timetable_entry(caller, entry_id) /\ UNCHANGED pc

Next ==
    \/ CreateTimetableEntry
    \/ UpdateTimetableEntry
    \/ DeleteTimetableEntry

Spec == Init /\ [][Next]_vars

-----------------------------------------------------------------------------
(* The days specification: the admin creates, updates and checks entries   *)
(* of one class whose day comes in lower or upper case or is no day, and   *)
(* whose period is in or out of range.                                     *)

NextDays ==
    LET days == {monday_lc, tuesday_uc, bad_day} IN
    /\ UNCHANGED pc
    /\ \/ \E d \in days, p \in {1, 8, 9}, t \in {2, 3} :
            create_timetable_entry(1, timetable_body(d, p, EmptyDict, 1, 1, t))
       \/ \E d \in opt("day", days), p \in {8, 0}, entry_id \in DOMAIN timetable :
            update_timetable_entry(1, entry_id, ("period" :> p) @@ d)
       \/ \E d \in days \ {bad_day}, p \in {1, 8}, t \in {2, 3} :
            check_timetable_conflicts(1, timetable_body(d, p, EmptyDict, 1, 1, t))

SpecDays == Init /\ [][NextDays]_vars

-----------------------------------------------------------------------------
(* The conflict-check specification: check_timetable_conflicts reads the   *)
(* store and changes nothing, so it is applied once to every timetable of  *)
(* at most MaxTimetable rows that the create handler can build.            *)

\* the rows of the candidates' slot, and rows that differ from it in the day
\* or in the period
timetable_rows ==
    [day : {Monday}, period : {1}, room : {None, "R1"},
     subject_id : {1}, class_id : {1, 2}, teacher_id : {2, 3}]
    \cup [day : {Monday}, period : {8}, room : {"R1"},
          subject_id : {1}, class_id : {1}, teacher_id : {2}]
    \cup [day : {Tuesday}, period : {1}, room : {"R1"},
          subject_id : {1}, class_id : {1}, teacher_id : {2}]

check_candidates ==
    {timetable_body(monday_lc, 1, x, 1, c, t) :
        x \in opt("room", {None, "", "R1"}), c \in {1, 2}, t \in {2, 3}}
    \cup {without(timetable_body(monday_lc, 1, EmptyDict, 1, 1, 2), "period"),
          without(timetable_body(monday_lc, 1, EmptyDict, 1, 1, 2), "teacher_id"),
          timetable_body(bad_day, 1, EmptyDict, 1, 1, 2)}

InitCheck ==
    /\ users = initial_users
    /\ classes = initial_classes
    /\ subjects = initial_subjects
    /\ students = EmptyDict
    /\ teacher_subjects = EmptyDict
    /\ \E n \in 0..MaxTimetable : timetable \in [1..n -> timetable_rows]
    /\ assessments = EmptyDict
    /\ performances = EmptyDict
    /\ sessions = EmptyDict
    /\ records = EmptyDict
    /\ resp = no_response
    /\ pc = ("check" :> "start")

CheckTimetableConflicts ==
    /\ pc["check"] = "start"
    /\ pc' = ("check" :> "done")
    /\ \E r \in timetable_requests(check_candidates) :
          check_timetable_conflicts(r[1], r[2])

\* the next request is the same read of the same store
CheckAgain ==
    /\ pc["check"] = "done"
    /\ pc' = ("check" :> "start")
    /\ resp' = no_response
    /\ UNCHANGED <<users, classes, subjects, students, teacher_subjects, timetable,
                   assessments, performances, sessions, records>>

NextCheck == CheckTimetableConflicts \/ CheckAgain

SpecCheck == InitCheck /\ [][NextCheck]_vars

-----------------------------------------------------------------------------
(* The race specification: two clients each run check_timetable_conflicts  *)
(* and, when it reports no conflict, create_timetable_entry.  Each request *)
(* is one transaction; the two clients' requests interleave.               *)

race_clients == {1, 2}

race_bodies ==
    {timetable_body(monday_lc, 1, x, 1, c, t) :
        x \in opt("room", {"R1"}), c \in {1, 2}, t \in {2, 3}}

InitRace ==
    /\ users = initial_users
    /\ classes = initial_classes
    /\ subjects = initial_subjects
    /\ students = EmptyDict
    /\ teacher_subjects = EmptyDict
    /\ timetable = EmptyDict
    /\ assessments = EmptyDict
    /\ performances = EmptyDict
    /\ sessions = EmptyDict
    /\ records = EmptyDict
    /\ resp = no_response
    /\ pc \in [race_clients -> [at : {"check"}, data : race_bodies, status : {0}]]

\* client p asks for the conflicts of its candidate
RaceCheck(p) ==
    /\ pc[p].at = "check"
    /\ check_timetable_conflicts(p, pc[p].data)
    /\ pc' = [pc EXCEPT ![p].at = IF resp'.status = 200 /\ ~resp'.out.has_conflicts
                                   THEN "create" ELSE "done",
                        ![p].status = resp'.status]

\* client p, having seen no conflict, inserts its candidate
RaceCreate(p) ==
    /\ pc[p].at = "create"
    /\ create_timetable_entry(p, pc[p].data)
    /\ pc' = [pc EXCEPT ![p].at = "done", ![p].status = resp'.status]

NextRace == \E p \in race_clients : RaceCheck(p) \/ RaceCreate(p)

SpecRace == InitRace /\ [][NextRace]_vars

-----------------------------------------------------------------------------
(* views/academics.py                                                      *)

\* the whole Domain Store
store ==
    <<users, classes, subjects, students, teacher_subjects, timetable,
      assessments, performances, sessions, records>>

\* a response that leaves the store as it was (no commit, or a rollback)
reject(op, caller, status, target) ==
    respond(op, caller, status, target, None) /\ UNCHANGED store

\* the rows of a table whose foreign key column holds id: a relationship
refs(table, column, id) == {i \in DOMAIN table : table[i][column] = id}

\* db.session.delete(parent) with a relationship that has no cascade: the
\* ORM sets the children's foreign key to NULL
nullify(table, column, id) ==
    [i \in DOMAIN table |->
        IF table[i][column] = id THEN [table[i] EXCEPT ![column] = NoId]
        ELSE table[i]]

\* the check with 'teacher' let through
may_manage_teacher(caller) == role_in(caller, {"admin", "headteacher", "teacher"})

\* `current_user.role not in ['admin', 'headteacher']`
may_manage(caller) == role_in(caller, {"admin", "headteacher"})

\* the check with 'headteacher' let through
may_delete_headteacher(caller) == role_in(caller, {"admin", "headteacher"})

\* `current_user.role != 'admin'`
may_delete(caller) == role_in(caller, {"admin"})

\* `not teacher or teacher.role != 'teacher'`, negated
is_teacher(id) == id \in DOMAIN users /\ users[id].role = "teacher"

new_class(data) ==
    [name             |-> data.name,
     stream           |-> get_str(data, "stream"),
     academic_year    |-> data.academic_year,
     class_teacher_id |-> get_id(data, "class_teacher_id")]

\* classes.name is NOT NULL: a null name raises IntegrityError, answered 409.
\* No constraint covers (name, stream), and SQLite enforces no foreign key.
create_class(caller, data) ==
    LET op == "create_class" IN
    IF ~is_user(caller) THEN reject(op, caller, 500, NoId)
    ELSE IF ~may_manage(caller) THEN reject(op, caller, 403, NoId)
    ELSE IF ~({"name", "academic_year"} \subseteq DOMAIN data)
        THEN reject(op, caller, 400, NoId)
    ELSE IF data.name = None THEN reject(op, caller, 409, NoId)
    ELSE /\ classes' = insert(classes, new_class(data))
         /\ respond(op, caller, 201, new_id(classes), None)
         /\ UNCHANGED <<users, subjects, students, teacher_subjects, timetable,
                        assessments, performances, sessions, records>>

updated_class(class_, data) ==
    [name             |-> IF has(data, "name") THEN data.name ELSE class_.name,
     stream           |-> IF has(data, "stream") THEN data.stream ELSE class_.stream,
     academic_year    |-> IF has(data, "academic_year") THEN data.academic_year
                          ELSE class_.academic_year,
     class_teacher_id |-> IF has(data, "class_teacher_id") THEN data.class_teacher_id
                          ELSE class_.class_teacher_id]

\* get_or_404 comes before the role check; the early 400 return leaves the
\* attributes set so far uncommitted, and the session is discarded
update_class(caller, class_id, data) ==
    LET op == "update_class" IN
    IF class_id \notin DOMAIN classes THEN reject(op, caller, 404, class_id)
    ELSE IF ~is_user(caller) THEN reject(op, caller, 500, class_id)
    ELSE IF ~may_manage(caller) THEN reject(op, caller, 403, class_id)
    ELSE IF has(data, "class_teacher_id") /\ ~is_teacher(data.class_teacher_id)
        THEN reject(op, caller, 400, class_id)
    ELSE IF has(data, "name") /\ data.name = None THEN reject(op, caller, 409, class_id)
    ELSE /\ classes' = [classes EXCEPT ![class_id] = updated_class(@, data)]
         /\ respond(op, caller, 200, class_id, None)
         /\ UNCHANGED <<users, subjects, students, teacher_subjects, timetable,
                        assessments, performances, sessions, records>>

\* Class.timetable_entries has no cascade and timetable.class_id is NOT NULL:
\* deleting a class with timetable entries raises IntegrityError at the flush,
\* caught by `except Exception` (rollback, 500). Class.attendance_sessions has
\* a nullable foreign key, which the delete sets to NULL.
delete_class(caller, class_id) ==
    LET op == "delete_class" IN
    IF class_id \notin DOMAIN classes THEN reject(op, caller, 404, class_id)
    ELSE IF ~is_user(caller) THEN reject(op, caller, 500, class_id)
    ELSE IF ~may_delete(caller) THEN reject(op, caller, 403, class_id)
    ELSE IF refs(students, "class_id", class_id) # {} THEN reject(op, caller, 400, class_id)
    ELSE IF refs(teacher_subjects, "class_id", class_id) # {}
        THEN reject(op, caller, 400, class_id)
    ELSE IF refs(timetable, "class_id", class_id) # {} THEN reject(op, caller, 500, class_id)
    ELSE /\ classes' = delete_rows(classes, {class_id})
         /\ sessions' = nullify(sessions, "class_id", class_id)
         /\ respond(op, caller, 200, class_id, None)
         /\ UNCHANGED <<users, subjects, students, teacher_subjects, timetable,
                        assessments, performances, records>>


new_subject(data) ==
    [name    |-> data.name,
     code    |-> data.code,
     is_core |-> IF has(data, "is_core") THEN data.is_core ELSE FALSE]

\* subjects.code is unique (NULLs excepted) and subjects.name is NOT NULL:
\* the IntegrityError either raises for a row of the table
subject_integrity_error(table) ==
    \/ \E s \in DOMAIN table : table[s].name = None
    \/ \E s \in DOMAIN table, t \in DOMAIN table :
          s # t /\ table[s].code # None /\ table[s].code = table[t].code

create_subject(caller, data) ==
    LET op == "create_subject" IN
    IF ~is_user(caller) THEN reject(op, caller, 500, NoId)
    ELSE IF ~may_manage(caller) THEN reject(op, caller, 403, NoId)
    ELSE IF ~({"name", "code"} \subseteq DOMAIN data) THEN reject(op, caller, 400, NoId)
    ELSE IF subject_integrity_error(insert(subjects, new_subject(data)))
        THEN reject(op, caller, 409, NoId)
    ELSE /\ subjects' = insert(subjects, new_subject(data))
         /\ respond(op, caller, 201, new_id(subjects), None)
         /\ UNCHANGED <<users, classes, students, teacher_subjects, timetable,
                        assessments, performances, sessions, records>>

updated_subject(subject, data) ==
    [name    |-> IF has(data, "name") THEN data.name ELSE subject.name,
     code    |-> IF has(data, "code") THEN data.code ELSE subject.code,
     is_core |-> IF has(data, "is_core") THEN data.is_core ELSE subject.is_core]

update_subject(caller, subject_id, data) ==
    LET op == "update_subject"
        updated == [subjects EXCEPT ![subject_id] = updated_subject(@, data)]
    IN
    IF subject_id \notin DOMAIN subjects THEN reject(op, caller, 404, subject_id)
    ELSE IF ~is_user(caller) THEN reject(op, caller, 500, subject_id)
    ELSE IF ~may_manage(caller) THEN reject(op, caller, 403, subject_id)
    ELSE IF subject_integrity_error(updated) THEN reject(op, caller, 409, subject_id)
    ELSE /\ subjects' = updated
         /\ respond(op, caller, 200, subject_id, None)
         /\ UNCHANGED <<users, classes, students, teacher_subjects, timetable,
                        assessments, performances, sessions, records>>

\* Subject.timetable_entries and Subject.assessments have NOT NULL foreign
\* keys and no cascade (IntegrityError, 500); Subject.attendance_sessions has
\* a nullable one
delete_subject(caller, subject_id) ==
    LET op == "delete_subject" IN
    IF subject_id \notin DOMAIN subjects THEN reject(op, caller, 404, subject_id)
    ELSE IF ~is_user(caller) THEN reject(op, caller, 500, subject_id)
    ELSE IF ~may_delete(caller) THEN reject(op, caller, 403, subject_id)
    ELSE IF refs(teacher_subjects, "subject_id", subject_id) # {}
        THEN reject(op, caller, 400, subject_id)
    ELSE IF refs(timetable, "subject_id", subject_id) # {}
            \/ refs(assessments, "subject_id", subject_id) # {}
        THEN reject(op, caller, 500, subject_id)
    ELSE /\ subjects' = delete_rows(subjects, {subject_id})
         /\ sessions' = nullify(sessions, "subject_id", subject_id)
         /\ respond(op, caller, 200, subject_id, None)
         /\ UNCHANGED <<users, classes, students, teacher_subjects, timetable,
                        assessments, performances, records>>

assignment_fields == {"teacher_id", "subject_id", "class_id"}

new_assignment(data) ==
    [teacher_id |-> data.teacher_id,
     subject_id |-> data.subject_id,
     class_id   |-> data.class_id]

\* The TeacherSubject table carries no unique constraint (models.py) and the
\* handler looks for no existing row: the 409 branch is never taken.
assign_teacher_to_subject(caller, data) ==
    LET op == "assign_teacher_to_subject" IN
    IF ~is_user(caller) THEN reject(op, caller, 500, NoId)
    ELSE IF ~may_manage(caller) THEN reject(op, caller, 403, NoId)
    ELSE IF ~(assignment_fields \subseteq DOMAIN data) THEN reject(op, caller, 400, NoId)
    ELSE IF ~is_teacher(data.teacher_id) THEN reject(op, caller, 400, NoId)
    ELSE IF data.subject_id \notin DOMAIN subjects THEN reject(op, caller, 404, NoId)
    ELSE IF data.class_id \notin DOMAIN classes THEN reject(op, caller, 404, NoId)
    ELSE /\ teacher_subjects' = insert(teacher_subjects, new_assignment(data))
         /\ respond(op, caller, 201, new_id(teacher_subjects), None)
         /\ UNCHANGED <<users, classes, subjects, students, timetable,
                        assessments, performances, sessions, records>>

remove_teacher_subject_assignment(caller, assignment_id) ==
    LET op == "remove_teacher_subject_assignment" IN
    IF assignment_id \notin DOMAIN teacher_subjects
        THEN reject(op, caller, 404, assignment_id)
    ELSE IF ~is_user(caller) THEN reject(op, caller, 500, assignment_id)
    ELSE IF ~may_manage(caller) THEN reject(op, caller, 403, assignment_id)
    ELSE /\ teacher_subjects' = delete_rows(teacher_subjects, {assignment_id})
         /\ respond(op, caller, 200, assignment_id, None)
         /\ UNCHANGED <<users, classes, subjects, students, timetable,
                        assessments, performances, sessions, records>>


-----------------------------------------------------------------------------
(* views/admin.py and views/user.py                                        *)

\* The views read user.class_teacher, which models.py does not define; it is
\* modelled as the relationship the model does define for a class teacher,
\* User.classes_taught (Class.class_teacher_id).
\* User.recorded_performances and User.recorded_attendances have NOT NULL
\* foreign keys and no cascade: the delete raises IntegrityError (500).
admin_delete_user(caller, user_id) ==
    LET op == "admin_delete_user" IN
    IF ~is_user(caller) THEN reject(op, caller, 500, user_id)
    ELSE IF ~may_delete(caller) THEN reject(op, caller, 403, user_id)
    ELSE IF caller = user_id THEN reject(op, caller, 400, user_id)
    ELSE IF user_id \notin DOMAIN users THEN reject(op, caller, 404, user_id)
    ELSE IF refs(classes, "class_teacher_id", user_id) # {}
        THEN reject(op, caller, 400, user_id)
    ELSE IF refs(teacher_subjects, "teacher_id", user_id) # {}
        THEN reject(op, caller, 400, user_id)
    ELSE IF refs(performances, "recorded_by", user_id) # {}
            \/ refs(sessions, "recorded_by", user_id) # {}
        THEN reject(op, caller, 500, user_id)
    ELSE /\ users' = delete_rows(users, {user_id})
         /\ respond(op, caller, 200, user_id, None)
         /\ UNCHANGED <<classes, subjects, students, teacher_subjects, timetable,
                        assessments, performances, sessions, records>>

\* user.py's handler without its test for the caller's own id
delete_user_also_self(caller, user_id) ==
    LET op == "delete_user" IN
    IF ~is_user(caller) THEN reject(op, caller, 500, user_id)
    ELSE IF ~may_delete(caller) THEN reject(op, caller, 403, user_id)
    ELSE IF user_id \notin DOMAIN users THEN reject(op, caller, 404, user_id)
    ELSE IF refs(teacher_subjects, "teacher_id", user_id) # {}
            \/ refs(performances, "recorded_by", user_id) # {}
            \/ refs(sessions, "recorded_by", user_id) # {}
        THEN reject(op, caller, 500, user_id)
    ELSE /\ users' = delete_rows(users, {user_id})
         /\ classes' = nullify(classes, "class_teacher_id", user_id)
         /\ respond(op, caller, 200, user_id, None)
         /\ UNCHANGED <<subjects, students, teacher_subjects, timetable,
                        assessments, performances, sessions, records>>

\* user.py checks the role before the target exists and deletes without
\* looking at the user's rows: User.taught_subjects has a NOT NULL foreign
\* key too, and User.classes_taught a nullable one
delete_user(caller, user_id) ==
    LET op == "delete_user" IN
    IF ~is_user(caller) THEN reject(op, caller, 500, user_id)
    ELSE IF ~may_delete(caller) THEN reject(op, caller, 403, user_id)
    ELSE IF user_id \notin DOMAIN users THEN reject(op, caller, 404, user_id)
    ELSE IF caller = user_id THEN reject(op, caller, 400, user_id)
    ELSE IF refs(teacher_subjects, "teacher_id", user_id) # {}
            \/ refs(performances, "recorded_by", user_id) # {}
            \/ refs(sessions, "recorded_by", user_id) # {}
        THEN reject(op, caller, 500, user_id)
    ELSE /\ users' = delete_rows(users, {user_id})
         /\ classes' = nullify(classes, "class_teacher_id", user_id)
         /\ respond(op, caller, 200, user_id, None)
         /\ UNCHANGED <<subjects, students, teacher_subjects, timetable,
                        assessments, performances, sessions, records>>

\* Class.query.update(...): every class gets the year
set_academic_year(caller, data) ==
    LET op == "set_academic_year" IN
    IF ~is_user(caller) THEN reject(op, caller, 500, NoId)
    ELSE IF ~may_delete(caller) THEN reject(op, caller, 403, NoId)
    ELSE IF ~has(data, "academic_year") THEN reject(op, caller, 400, NoId)
    ELSE /\ classes' = [c \in DOMAIN classes |->
                           [classes[c] EXCEPT !.academic_year = data.academic_year]]
         /\ respond(op, caller, 200, NoId, None)
         /\ UNCHANGED <<users, subjects, students, teacher_subjects, timetable,
                        assessments, performances, sessions, records>>

\* one item of the list is in error: each item is checked against the store,
\* never against the items before it
assignment_error(item) ==
    \/ ~(assignment_fields \subseteq DOMAIN item)
    \/ ~is_teacher(item.teacher_id)
    \/ item.subject_id \notin DOMAIN subjects
    \/ item.class_id \notin DOMAIN classes
    \/ \E a \in DOMAIN teacher_subjects : teacher_subjects[a] = new_assignment(item)

\* db.session.bulk_save_objects(rows): the rows in order, each under the next
\* primary key
bulk_save_objects(table, rows) ==
    LET last == new_id(table) - 1 IN
    [i \in DOMAIN table \cup (last + 1 .. last + Len(rows)) |->
        IF i \in DOMAIN table THEN table[i] ELSE rows[i - last]]

\* the body is a JSON array (data.is_list, its elements data.items) or not
bulk_assign_teachers(caller, data) ==
    LET op == "bulk_assign_teachers" IN
    IF ~is_user(caller) THEN reject(op, caller, 500, NoId)
    ELSE IF ~may_delete(caller) THEN reject(op, caller, 403, NoId)
    ELSE IF ~data.is_list THEN reject(op, caller, 400, NoId)
    ELSE IF \E i \in 1..Len(data.items) : assignment_error(data.items[i])
        THEN reject(op, caller, 400, NoId)
    ELSE /\ teacher_subjects' =
                bulk_save_objects(teacher_subjects,
                                  [i \in 1..Len(data.items) |-> new_assignment(data.items[i])])
         /\ respond(op, caller, 201, NoId, Len(data.items))
         /\ UNCHANGED <<users, classes, subjects, students, timetable,
                        assessments, performances, sessions, records>>


-----------------------------------------------------------------------------
(* The academics specification: at most MaxRequests requests to the class, *)
(* subject, assignment, user and timetable handlers, by an admin (1), a    *)
(* headteacher (2), a teacher (3) and a parent (4), on a store that holds  *)
(* two classes, a subject, a student and a session, with or without an     *)
(* assignment and a timetable entry.                                       *)

academics_callers == {1, 2, 3, 4}

\* the requests: the admin's with every body, the others' with the first
requests(bodies) ==
    {<<1, bodies[i]>> : i \in 1..Len(bodies)}
    \cup {<<caller, bodies[1]>> : caller \in academics_callers \ {1}}

assignment_body(t, s, c) ==
    ("teacher_id" :> t) @@ ("subject_id" :> s) @@ ("class_id" :> c)

InitAcademics ==
    /\ users = initial_users @@ (4 :> [role |-> "parent"])
    /\ classes = initial_classes
    /\ subjects = initial_subjects
    /\ students = (1 :> [class_id |-> 1])
    /\ \E populated \in BOOLEAN :
          /\ teacher_subjects =
                IF populated THEN (1 :> new_assignment(assignment_body(3, 1, 1)))
                ELSE EmptyDict
          /\ timetable =
                IF populated
                THEN (1 :> new_timetable_entry(
                               timetable_body(monday_lc, 1, EmptyDict, 1, 2, 3)))
                ELSE EmptyDict
    /\ assessments = EmptyDict
    /\ performances = EmptyDict
    /\ sessions = (1 :> [date |-> <<2024, 1, 15>>, class_id |-> 2, subject_id |-> 1,
                         recorded_by |-> 2])
    /\ records = EmptyDict
    /\ resp = no_response
    /\ pc = [n |-> 0]

\* one more request is made
request_made ==
    /\ pc.n < MaxRequests
    /\ pc' = [n |-> pc.n + 1]

CreateClass ==
    /\ request_made
    /\ \E r \in requests(<<("name" :> "Grade 5") @@ ("academic_year" :> "2025"),
                           ("name" :> "Grade 5"),
                           ("name" :> None) @@ ("academic_year" :> "2025")>>) :
          create_class(r[1], r[2])

UpdateClass ==
    /\ request_made
    /\ \E r \in requests(<<("name" :> "Grade 6"),
                           ("class_teacher_id" :> 3),
                           ("name" :> "Grade 6") @@ ("class_teacher_id" :> 2),
                           ("name" :> None)>>),
          class_id \in {1, 3} :
          update_class(r[1], class_id, r[2])

DeleteClass ==
    /\ request_made
    /\ \E caller \in academics_callers, class_id \in 1..3 :
          delete_class(caller, class_id)

CreateSubject ==
    /\ request_made
    /\ \E r \in requests(<<("name" :> "Science") @@ ("code" :> "SCI101"),
                           ("name" :> "Maths") @@ ("code" :> "MATH101"),
                           ("name" :> "Science")>>) :
          create_subject(r[1], r[2])

UpdateSubject ==
    /\ request_made
    /\ \E r \in requests(<<("name" :> "Maths"),
                           ("code" :> "MATH101") @@ ("is_core" :> FALSE),
                           ("name" :> None)>>),
          subject_id \in 1..2 :
          update_subject(r[1], subject_id, r[2])

DeleteSubject ==
    /\ request_made
    /\ \E caller \in academics_callers, subject_id \in 1..2 :
          delete_subject(caller, subject_id)

AssignTeacherToSubject ==
    /\ request_made
    /\ \E r \in requests(<<assignment_body(3, 1, 1),
                           assignment_body(3, 1, 2),
                           assignment_body(2, 1, 1),
                           assignment_body(3, 9, 1),
                           assignment_body(3, 1, 9),
                           without(assignment_body(3, 1, 1), "class_id")>>) :
          assign_teacher_to_subject(r[1], r[2])

RemoveTeacherSubjectAssignment ==
    /\ request_made
    /\ \E caller \in academics_callers, assignment_id \in 1..2 :
          remove_teacher_subject_assignment(caller, assignment_id)

BulkAssignTeachers ==
    /\ request_made
    /\ \E r \in requests(<<<<assignment_body(3, 1, 2)>>,
                           <<assignment_body(3, 1, 2), assignment_body(3, 1, 2)>>,
                           <<assignment_body(3, 1, 1), assignment_body(3, 1, 2)>>,
                           <<assignment_body(3, 1, 2), assignment_body(2, 1, 2)>>,
                           <<>> >>),
          is_list \in BOOLEAN :
          /\ is_list \/ r[2] = <<>>
          /\ bulk_assign_teachers(r[1], [is_list |-> is_list, items |-> r[2]])

SetAcademicYear ==
    /\ request_made
    /\ \E r \in requests(<<("academic_year" :> "2025"), EmptyDict>>) :
          set_academic_year(r[1], r[2])

DeleteUser ==
    /\ request_made
    /\ \E caller \in academics_callers, user_id \in 1..5 :
          /\ caller = 1 \/ user_id \in {4, 5}
          /\ delete_user(caller, user_id)

AdminDeleteUser ==
    /\ request_made
    /\ \E caller \in academics_callers, user_id \in 1..5 :
          /\ caller = 1 \/ user_id \in {4, 5}
          /\ admin_delete_user(caller, user_id)

AcademicsCreateTimetableEntry ==
    /\ request_made
    /\ \E r \in requests(<<timetable_body(monday_lc, 1, EmptyDict, 1, 2, 3),
                           timetable_body(bad_day, 1, EmptyDict, 1, 2, 3)>>) :
          create_timetable_entry(r[1], r[2])

AcademicsUpdateTimetableEntry ==
    /\ request_made
    /\ \E r \in requests(<<("period" :> 2), ("period" :> 9)>>), entry_id \in 1..2 :
          update_timetable_entry(r[1], entry_id, r[2])

NextAcademics ==
    \/ CreateClass
    \/ UpdateClass
    \/ DeleteClass
    \/ CreateSubject
    \/ UpdateSubject
    \/ DeleteSubject
    \/ AssignTeacherToSubject
    \/ RemoveTeacherSubjectAssignment
    \/ BulkAssignTeachers
    \/ SetAcademicYear
    \/ DeleteUser
    \/ AdminDeleteUser
    \/ AcademicsCreateTimetableEntry
    \/ AcademicsUpdateTimetableEntry

SpecAcademics == InitAcademics /\ [][NextAcademics]_vars


-----------------------------------------------------------------------------
(* views/performance.py                                                    *)
(* A score is a number; NoId stands for JSON null and for a NULL score or  *)
(* max_score, NotANumber for a string float() cannot convert.              *)

NotANumber == -2

\* data.get('assessment_id', 0)
assessment_of(data) == IF has(data, "assessment_id") THEN data.assessment_id ELSE 0

\* `score > assessment.max_score` with a NULL max_score raises TypeError,
\* which `except ValueError` does not catch
validate_performance_raises(data) ==
    /\ has(data, "score")
    /\ data.score \notin {NoId, NotANumber}
    /\ assessment_of(data) \in DOMAIN assessments
    /\ assessments[assessment_of(data)].max_score = NoId

\* the keys of the errors dict
validate_performance_data(data, is_update) ==
    {f \in {"student_id", "assessment_id", "recorded_by"} : ~is_update /\ ~has(data, f)}
    \cup {f \in {"student_id"} : has(data, f) /\ data[f] \notin DOMAIN students}
    \cup {f \in {"assessment_id"} : has(data, f) /\ data[f] \notin DOMAIN assessments}
    \cup {f \in {"recorded_by"} : has(data, f) /\ data[f] \notin DOMAIN users}
    \cup {f \in {"score"} :
            /\ has(data, f)
            /\ data[f] # NoId
            /\ \/ data[f] = NotANumber
               \/ /\ assessment_of(data) \in DOMAIN assessments
                  /\ data[f] > assessments[assessment_of(data)].max_score}

new_performance(data) ==
    [student_id    |-> data.student_id,
     assessment_id |-> data.assessment_id,
     recorded_by   |-> data.recorded_by,
     score         |-> get_id(data, "score")]

\* The StudentPerformance table carries no unique constraint: the 409 branch
\* is never taken.
create_performance(caller, data) ==
    LET op == "create_performance" IN
    IF ~is_user(caller) THEN reject(op, caller, 500, NoId)
    ELSE IF ~role_in(caller, {"teacher", "headteacher", "admin"})
        THEN reject(op, caller, 403, NoId)
    ELSE IF validate_performance_raises(data) THEN reject(op, caller, 500, NoId)
    ELSE IF validate_performance_data(data, FALSE) # {} THEN reject(op, caller, 400, NoId)
    ELSE IF caller # data.recorded_by THEN reject(op, caller, 403, NoId)
    ELSE /\ performances' = insert(performances, new_performance(data))
         /\ respond(op, caller, 201, new_id(performances), None)
         /\ UNCHANGED <<users, classes, subjects, students, teacher_subjects,
                        timetable, assessments, sessions, records>>

\* the update with recorded_by among the keys it writes
update_performance_writes_recorder(caller, performance_id, data) ==
    LET op == "update_performance" IN
    IF performance_id \notin DOMAIN performances
        THEN reject(op, caller, 404, performance_id)
    ELSE IF ~is_user(caller) THEN reject(op, caller, 500, performance_id)
    ELSE IF caller # performances[performance_id].recorded_by
            /\ ~role_in(caller, {"headteacher", "admin"})
        THEN reject(op, caller, 403, performance_id)
    ELSE IF validate_performance_raises(data) THEN reject(op, caller, 500, performance_id)
    ELSE IF validate_performance_data(data, TRUE) # {}
        THEN reject(op, caller, 400, performance_id)
    ELSE /\ performances' =
                [performances EXCEPT
                    ![performance_id].score = IF has(data, "score") THEN data.score ELSE @,
                    ![performance_id].recorded_by =
                        IF has(data, "recorded_by") THEN data.recorded_by ELSE @]
         /\ respond(op, caller, 200, performance_id, None)
         /\ UNCHANGED <<users, classes, subjects, students, teacher_subjects,
                        timetable, assessments, sessions, records>>

\* only the score of the row is modelled; the row keeps its assessment
update_performance(caller, performance_id, data) ==
    LET op == "update_performance" IN
    IF performance_id \notin DOMAIN performances
        THEN reject(op, caller, 404, performance_id)
    ELSE IF ~is_user(caller) THEN reject(op, caller, 500, performance_id)
    ELSE IF caller # performances[performance_id].recorded_by
            /\ ~role_in(caller, {"headteacher", "admin"})
        THEN reject(op, caller, 403, performance_id)
    ELSE IF validate_performance_raises(data) THEN reject(op, caller, 500, performance_id)
    ELSE IF validate_performance_data(data, TRUE) # {}
        THEN reject(op, caller, 400, performance_id)
    ELSE /\ performances' =
                IF has(data, "score")
                THEN [performances EXCEPT ![performance_id].score = data.score]
                ELSE performances
         /\ respond(op, caller, 200, performance_id, None)
         /\ UNCHANGED <<users, classes, subjects, students, teacher_subjects,
                        timetable, assessments, sessions, records>>

-----------------------------------------------------------------------------
(* The performance specification: at most MaxRequests create and update    *)
(* requests on a store with one student and two assessments, the first     *)
(* with max_score 50, the second with max_score 100 or none.               *)

performance_body(a, r, score) ==
    ("student_id" :> 1) @@ ("assessment_id" :> a) @@ ("recorded_by" :> r) @@ score

InitPerformance ==
    /\ users = initial_users @@ (4 :> [role |-> "parent"])
    /\ classes = initial_classes
    /\ subjects = initial_subjects
    /\ students = (1 :> [class_id |-> 1])
    /\ teacher_subjects = EmptyDict
    /\ timetable = EmptyDict
    /\ \E max_score \in {100, NoId} :
          assessments =
              (1 :> [subject_id |-> 1, class_id |-> 1, max_score |-> 50])
              @@ (2 :> [subject_id |-> 1, class_id |-> 1, max_score |-> max_score])
    /\ performances = EmptyDict
    /\ sessions = EmptyDict
    /\ records = EmptyDict
    /\ resp = no_response
    /\ pc = [n |-> 0]

CreatePerformance ==
    /\ request_made
    /\ \E r \in {<<3, performance_body(a, 3, s)>> :
                    a \in {1, 2}, s \in opt("score", {40, 80, NoId, NotANumber})}
                \cup {<<3, without(performance_body(1, 3, EmptyDict), "student_id")>>,
                      <<3, performance_body(9, 3, "score" :> 40)>>,
                      <<1, performance_body(1, 3, "score" :> 40)>>,
                      <<2, performance_body(1, 2, "score" :> 40)>>,
                      <<4, performance_body(1, 4, "score" :> 40)>>} :
          create_performance(r[1], r[2])

UpdatePerformance ==
    /\ request_made
    /\ \E r \in {<<3, b>> :
                    b \in opt("score", {40, 80, 120, NoId, NotANumber})
                          \cup {("score" :> 80) @@ ("assessment_id" :> 2),
                                ("score" :> 80) @@ ("assessment_id" :> 9)}}
                \cup {<<2, "score" :> 80>>, <<4, "score" :> 40>>},
          performance_id \in 1..3 :
          update_performance(r[1], performance_id, r[2])

NextPerformance == CreatePerformance \/ UpdatePerformance

SpecPerformance == InitPerformance /\ [][NextPerformance]_vars


-----------------------------------------------------------------------------
(* views/attendance.py                                                     *)

\* datetime.strptime(s, '%Y-%m-%d').date() on the strings of the requests:
\* the date of a string of that format; any other string raises ValueError
strptime ==
    ("2024-01-15" :> <<2024, 1, 15>>) @@ ("2024-1-16" :> <<2024, 1, 16>>)

attendance_statuses == {"present", "absent", "late", "excused"}

\* the check with the class comparison left out
record_error_any_class(record, session_class_id) ==
    \/ ~has(record, "student_id")
    \/ record.student_id \notin DOMAIN students
    \/ ~has(record, "status")
    \/ record.status \notin attendance_statuses

\* one record of the list adds an error
record_error(record, session_class_id) ==
    \/ ~has(record, "student_id")
    \/ record.student_id \notin DOMAIN students
    \/ students[record.student_id].class_id # session_class_id
    \/ ~has(record, "status")
    \/ record.status \notin attendance_statuses

\* the errors list is not empty
validate_attendance_records_data(list, session_class_id) ==
    \E i \in 1..Len(list) : record_error(list[i], session_class_id)

\* the keys of the errors dict, for the session_data the handler builds:
\* every key is there, with None for what the body lacks, so a class or a
\* subject the body lacks is `not found`
validate_attendance_session_data(data) ==
    {f \in {"date"} : data.date \notin DOMAIN strptime}
    \cup {f \in {"class_id"} : get_id(data, f) \notin DOMAIN classes}
    \cup {f \in {"subject_id"} : get_id(data, f) \notin DOMAIN subjects}

new_records(table, session_id, list) ==
    bulk_save_objects(table,
        [i \in 1..Len(list) |->
            [session_id |-> session_id,
             student_id |-> list[i].student_id,
             status     |-> list[i].status]])

\* strptime(None, ...) raises TypeError in the validator, outside any try
create_attendance_session(caller, data) ==
    LET op   == "create_attendance_session"
        list == IF has(data, "records") THEN data.records ELSE <<>>
    IN
    IF ~is_user(caller) THEN reject(op, caller, 500, NoId)
    ELSE IF ~role_in(caller, {"teacher", "headteacher", "admin"})
        THEN reject(op, caller, 403, NoId)
    ELSE IF get_str(data, "date") = None THEN reject(op, caller, 500, NoId)
    ELSE IF validate_attendance_session_data(data) # {} THEN reject(op, caller, 400, NoId)
    ELSE IF list = <<>> THEN reject(op, caller, 400, NoId)
    ELSE IF validate_attendance_records_data(list, data.class_id)
        THEN reject(op, caller, 400, NoId)
    ELSE /\ sessions' = insert(sessions, [date        |-> strptime[data.date],
                                          class_id    |-> data.class_id,
                                          subject_id  |-> data.subject_id,
                                          recorded_by |-> caller])
         /\ records' = new_records(records, new_id(sessions), list)
         /\ respond(op, caller, 201, new_id(sessions), None)
         /\ UNCHANGED <<users, classes, subjects, students, teacher_subjects,
                        timetable, assessments, performances>>

\* the update with the new records added to those the session has
update_attendance_session_appends(caller, session_id, data) ==
    LET op == "update_attendance_session" IN
    IF session_id \notin DOMAIN sessions THEN reject(op, caller, 404, session_id)
    ELSE IF ~is_user(caller) THEN reject(op, caller, 500, session_id)
    ELSE IF caller # sessions[session_id].recorded_by
            /\ ~role_in(caller, {"headteacher", "admin"})
        THEN reject(op, caller, 403, session_id)
    ELSE IF has(data, "records")
            /\ validate_attendance_records_data(data.records,
                                                sessions[session_id].class_id)
        THEN reject(op, caller, 400, session_id)
    ELSE IF has(data, "date") /\ data.date \notin DOMAIN strptime
        THEN reject(op, caller, 500, session_id)
    ELSE /\ sessions' =
                IF has(data, "date")
                THEN [sessions EXCEPT ![session_id].date = strptime[data.date]]
                ELSE sessions
         /\ records' =
                IF has(data, "records")
                THEN new_records(records, session_id, data.records)
                ELSE records
         /\ respond(op, caller, 200, session_id, None)
         /\ UNCHANGED <<users, classes, subjects, students, teacher_subjects,
                        timetable, assessments, performances>>

\* a date that does not parse raises inside the try: rollback, 500
update_attendance_session(caller, session_id, data) ==
    LET op == "update_attendance_session" IN
    IF session_id \notin DOMAIN sessions THEN reject(op, caller, 404, session_id)
    ELSE IF ~is_user(caller) THEN reject(op, caller, 500, session_id)
    ELSE IF caller # sessions[session_id].recorded_by
            /\ ~role_in(caller, {"headteacher", "admin"})
        THEN reject(op, caller, 403, session_id)
    ELSE IF has(data, "records")
            /\ validate_attendance_records_data(data.records,
                                                sessions[session_id].class_id)
        THEN reject(op, caller, 400, session_id)
    ELSE IF has(data, "date") /\ data.date \notin DOMAIN strptime
        THEN reject(op, caller, 500, session_id)
    ELSE /\ sessions' =
                IF has(data, "date")
                THEN [sessions EXCEPT ![session_id].date = strptime[data.date]]
                ELSE sessions
         /\ records' =
                IF has(data, "records")
                THEN new_records(delete_rows(records, refs(records, "session_id", session_id)),
                                 session_id, data.records)
                ELSE records
         /\ respond(op, caller, 200, session_id, None)
         /\ UNCHANGED <<users, classes, subjects, students, teacher_subjects,
                        timetable, assessments, performances>>

\* the delete without the cascade of AttendanceSession.records
delete_attendance_session_no_cascade(caller, session_id) ==
    LET op == "delete_attendance_session" IN
    IF session_id \notin DOMAIN sessions THEN reject(op, caller, 404, session_id)
    ELSE IF ~is_user(caller) THEN reject(op, caller, 500, session_id)
    ELSE IF caller # sessions[session_id].recorded_by
            /\ ~role_in(caller, {"headteacher", "admin"})
        THEN reject(op, caller, 403, session_id)
    ELSE /\ sessions' = delete_rows(sessions, {session_id})
         /\ respond(op, caller, 200, session_id, None)
         /\ UNCHANGED <<users, classes, subjects, students, teacher_subjects,
                        timetable, assessments, performances, records>>

\* AttendanceSession.records cascades the delete
delete_attendance_session(caller, session_id) ==
    LET op == "delete_attendance_session" IN
    IF session_id \notin DOMAIN sessions THEN reject(op, caller, 404, session_id)
    ELSE IF ~is_user(caller) THEN reject(op, caller, 500, session_id)
    ELSE IF caller # sessions[session_id].recorded_by
            /\ ~role_in(caller, {"headteacher", "admin"})
        THEN reject(op, caller, 403, session_id)
    ELSE /\ sessions' = delete_rows(sessions, {session_id})
         /\ records' = delete_rows(records, refs(records, "session_id", session_id))
         /\ respond(op, caller, 200, session_id, None)
         /\ UNCHANGED <<users, classes, subjects, students, teacher_subjects,
                        timetable, assessments, performances>>


-----------------------------------------------------------------------------
(* The attendance specification: at most MaxRequests create, update and    *)
(* delete requests on a store whose students 1 and 2 are in classes 1 and  *)
(* 2 and whose student 3 is in no class.                                   *)

attendance_record(student_id, status) ==
    ("student_id" :> student_id) @@ ("status" :> status)

\* lists of records: good for class 1, good for class 2, mixed, and bad
record_lists ==
    {<<attendance_record(1, "present")>>,
     <<attendance_record(2, "late")>>,
     <<attendance_record(1, "absent"), attendance_record(2, "excused")>>,
     <<attendance_record(1, "present"), attendance_record(3, "present")>>,
     <<attendance_record(1, "sick")>>,
     <<attendance_record(9, "present")>>,
     <<without(attendance_record(1, "present"), "status")>>,
     <<>>}

session_body(date, class_id, list) ==
    date @@ class_id @@ ("subject_id" :> 1) @@ ("records" :> list)

InitAttendance ==
    /\ users = initial_users @@ (4 :> [role |-> "parent"])
    /\ classes = initial_classes
    /\ subjects = initial_subjects
    /\ students = (1 :> [class_id |-> 1]) @@ (2 :> [class_id |-> 2])
                  @@ (3 :> [class_id |-> NoId])
    /\ teacher_subjects = EmptyDict
    /\ timetable = EmptyDict
    /\ assessments = EmptyDict
    /\ performances = EmptyDict
    /\ sessions = EmptyDict
    /\ records = EmptyDict
    /\ resp = no_response
    /\ pc = [n |-> 0]

CreateAttendanceSession ==
    /\ request_made
    /\ \E r \in {<<3, session_body("date" :> "2024-01-15", "class_id" :> c, list)>> :
                    c \in {1, 2}, list \in record_lists}
                \cup {<<3, session_body(d, c, <<attendance_record(1, "present")>>)>> :
                        d \in opt("date", {"15/01/2024", None}),
                        c \in opt("class_id", {9})}
                \cup {<<caller, session_body("date" :> "2024-1-16", "class_id" :> 2,
                                             <<attendance_record(2, "late")>>)>> :
                        caller \in {2, 4}} :
          create_attendance_session(r[1], r[2])

UpdateAttendanceSession ==
    /\ request_made
    /\ \E r \in {<<3, "records" :> list>> : list \in record_lists}
                \cup {<<3, "date" :> d>> : d \in {"2024-1-16", "15/01/2024"}}
                \cup {<<2, ("date" :> "2024-1-16")
                           @@ ("records" :> <<attendance_record(2, "absent")>>)>>,
                      <<3, ("date" :> "15/01/2024")
                           @@ ("records" :> <<attendance_record(1, "absent")>>)>>,
                      <<4, "records" :> <<attendance_record(1, "present")>>>>},
          session_id \in 1..2 :
          update_attendance_session(r[1], session_id, r[2])

DeleteAttendanceSession ==
    /\ request_made
    /\ \E caller \in {2, 3, 4}, session_id \in 1..2 :
          delete_attendance_session(caller, session_id)

NextAttendance ==
    \/ CreateAttendanceSession
    \/ UpdateAttendanceSession
    \/ DeleteAttendanceSession

SpecAttendance == InitAttendance /\ [][NextAttendance]_vars

-----------------------------------------------------------------------------
(* views/user.py and views/admin.py: reading and updating a user.          *)
(* Both blueprints route /users/<int:user_id>; both handlers are modelled. *)
(* A user row here carries the columns the two handlers read and write.    *)

\* User.query.filter(User.<column> == value, User.id != user_id).first()
in_use(column, value, user_id) ==
    \E u \in DOMAIN users : u # user_id /\ users[u][column] = value

\* the assignments of the handler: the keys of the body that are in `keys`
\* are written to the row; set_password stores a hash, never the password
updated_user(user, data, keys) ==
    [f \in DOMAIN user |->
        IF f = "password_hash"
            THEN IF has(data, "password") THEN <<"pbkdf2", data.password>> ELSE user[f]
        ELSE IF f \in keys /\ has(data, f) THEN data[f]
        ELSE user[f]]

\* user.py: the caller's own record, or any record for an admin
get_user(caller, user_id) ==
    LET op == "get_user" IN
    IF user_id \notin DOMAIN users THEN reject(op, caller, 404, user_id)
    ELSE IF ~is_user(caller) THEN reject(op, caller, 500, user_id)
    ELSE IF caller # user_id /\ ~role_in(caller, {"admin"})
        THEN reject(op, caller, 403, user_id)
    ELSE /\ respond(op, caller, 200, user_id,
                    [f \in {"username", "email", "role", "full_name", "phone", "is_active"} |->
                        users[user_id][f]])
         /\ UNCHANGED store

\* admin.py: the role is checked before the record is looked up
admin_get_user(caller, user_id) ==
    LET op == "admin_get_user" IN
    IF ~is_user(caller) THEN reject(op, caller, 500, user_id)
    ELSE IF ~role_in(caller, {"admin"}) THEN reject(op, caller, 403, user_id)
    ELSE IF user_id \notin DOMAIN users THEN reject(op, caller, 404, user_id)
    ELSE /\ respond(op, caller, 200, user_id,
                    [user |-> [f \in {"username", "email", "role", "full_name", "phone",
                                      "is_active"} |-> users[user_id][f]],
                     classes_taught |->
                        IF users[user_id].role = "teacher"
                        THEN refs(teacher_subjects, "teacher_id", user_id) ELSE {},
                     class_teacher_info |-> refs(classes, "class_teacher_id", user_id)])
         /\ UNCHANGED store

\* the guard with the 'is_active' key let through
sets_privilege_role_only(data) == has(data, "role")

\* `'role' in data or 'is_active' in data`
sets_privilege(data) == has(data, "role") \/ has(data, "is_active")

\* user.py. A 400 is returned before the commit: what was assigned so far is
\* discarded with the session. User.email is NOT NULL: a null email fails the
\* commit, inside the try (rollback, 500).
update_user(caller, user_id, data) ==
    LET op == "update_user"
        keys == {"username", "email", "full_name", "phone"}
                \cup IF role_in(caller, {"admin"}) THEN {"role", "is_active"} ELSE {}
    IN
    IF user_id \notin DOMAIN users THEN reject(op, caller, 404, user_id)
    ELSE IF ~is_user(caller) THEN reject(op, caller, 500, user_id)
    ELSE IF caller # user_id /\ ~role_in(caller, {"admin"})
        THEN reject(op, caller, 403, user_id)
    ELSE IF ~role_in(caller, {"admin"}) /\ sets_privilege(data)
        THEN reject(op, caller, 403, user_id)
    ELSE IF has(data, "username") /\ in_use("username", data.username, user_id)
        THEN reject(op, caller, 400, user_id)
    ELSE IF has(data, "email") /\ in_use("email", data.email, user_id)
        THEN reject(op, caller, 400, user_id)
    ELSE IF has(data, "email") /\ data.email = None
        THEN reject(op, caller, 500, user_id)
    ELSE /\ users' = [users EXCEPT ![user_id] = updated_user(@, data, keys)]
         /\ respond(op, caller, 200, user_id, None)
         /\ UNCHANGED <<classes, subjects, students, teacher_subjects, timetable,
                        assessments, performances, sessions, records>>

\* admin.py: admin only, the role checked before the record is looked up;
\* a name or an email in use answers 409
admin_update_user(caller, user_id, data) ==
    LET op == "admin_update_user" IN
    IF ~is_user(caller) THEN reject(op, caller, 500, user_id)
    ELSE IF ~role_in(caller, {"admin"}) THEN reject(op, caller, 403, user_id)
    ELSE IF user_id \notin DOMAIN users THEN reject(op, caller, 404, user_id)
    ELSE IF has(data, "username") /\ in_use("username", data.username, user_id)
        THEN reject(op, caller, 409, user_id)
    ELSE IF has(data, "email") /\ in_use("email", data.email, user_id)
        THEN reject(op, caller, 409, user_id)
    ELSE IF has(data, "email") /\ data.email = None
        THEN reject(op, caller, 500, user_id)
    ELSE /\ users' = [users EXCEPT ![user_id] =
                        updated_user(@, data, {"username", "email", "full_name", "phone",
                                               "role", "is_active"})]
         /\ respond(op, caller, 200, user_id,
                    [f \in {"username", "email", "role", "full_name", "is_active"} |->
                        users'[user_id][f]])
         /\ UNCHANGED <<classes, subjects, students, teacher_subjects, timetable,
                        assessments, performances, sessions, records>>

\* admin.py, /users/<id>/approve. The profile is committed before the mail
\* is sent; send_approval_notification calls mail.send with no try, so a
\* delivery that fails raises inside the handler's try: rollback of nothing,
\* 500. has_role('admin') is read as the role of the row.
approve_user(caller, user_id, delivered) ==
    LET op == "approve_user" IN
    IF user_id \notin DOMAIN users THEN reject(op, caller, 404, user_id)
    ELSE IF ~is_user(caller) THEN reject(op, caller, 500, user_id)
    ELSE IF ~role_in(caller, {"admin"}) THEN reject(op, caller, 403, user_id)
    ELSE IF \/ ~users[user_id].profile.exists
            \/ users[user_id].profile.account_type # "teacher"
            \/ users[user_id].profile.is_profile_complete
        THEN reject(op, caller, 400, user_id)
    ELSE /\ users' = [users EXCEPT ![user_id].profile.is_profile_complete = TRUE]
         /\ respond(op, caller, IF delivered THEN 200 ELSE 500, user_id, None)
         /\ UNCHANGED <<classes, subjects, students, teacher_subjects, timetable,
                        assessments, performances, sessions, records>>

-----------------------------------------------------------------------------
(* views/admin.py: bulk_create_students. A student row here carries the    *)
(* three required columns; students.admission_number is UNIQUE and         *)
(* students.full_name NOT NULL.                                            *)

\* the handler with its list of errors ignored: the elements that pass are saved
bulk_create_students_valid_rows(caller, data) ==
    LET op == "bulk_create_students"
        error(item) ==
            \/ ~({"admission_number", "full_name", "class_id"} \subseteq DOMAIN item)
            \/ \E s \in DOMAIN students :
                    students[s].admission_number = item.admission_number
            \/ item.class_id \notin DOMAIN classes
        valid == SelectSeq(data.items, LAMBDA item : ~error(item))
    IN
    IF ~is_user(caller) THEN reject(op, caller, 500, NoId)
    ELSE IF ~may_delete(caller) THEN reject(op, caller, 403, NoId)
    ELSE IF ~data.is_list THEN reject(op, caller, 400, NoId)
    ELSE /\ students' = bulk_save_objects(students, valid)
         /\ respond(op, caller, IF Len(valid) = Len(data.items) THEN 201 ELSE 400,
                    NoId, Len(valid))
         /\ UNCHANGED <<users, classes, subjects, teacher_subjects, timetable,
                        assessments, performances, sessions, records>>

\* Each element is checked against the store, never against the elements
\* before it; one element in error answers 400 before anything is saved. Two
\* elements with one admission number, or a null full_name, fail the flush of
\* bulk_save_objects inside the try (rollback, 500).
bulk_create_students(caller, data) ==
    LET op == "bulk_create_students"
        error(item) ==
            \/ ~({"admission_number", "full_name", "class_id"} \subseteq DOMAIN item)
            \/ \E s \in DOMAIN students :
                    students[s].admission_number = item.admission_number
            \/ item.class_id \notin DOMAIN classes
        rows == [i \in 1..Len(data.items) |->
                    [f \in {"admission_number", "full_name", "class_id"} |->
                        data.items[i][f]]]
    IN
    IF ~is_user(caller) THEN reject(op, caller, 500, NoId)
    ELSE IF ~may_delete(caller) THEN reject(op, caller, 403, NoId)
    ELSE IF ~data.is_list THEN reject(op, caller, 400, NoId)
    ELSE IF \E i \in 1..Len(data.items) : error(data.items[i])
        THEN reject(op, caller, 400, NoId)
    ELSE IF \/ \E i, j \in 1..Len(rows) :
                    i # j /\ rows[i].admission_number = rows[j].admission_number
            \/ \E i \in 1..Len(rows) :
                    rows[i].admission_number = None \/ rows[i].full_name = None
        THEN reject(op, caller, 500, NoId)
    ELSE /\ students' = bulk_save_objects(students, rows)
         /\ respond(op, caller, 201, NoId, Len(rows))
         /\ UNCHANGED <<users, classes, subjects, teacher_subjects, timetable,
                        assessments, performances, sessions, records>>

-----------------------------------------------------------------------------
(* The users specification: at most MaxRequests read, update and approve   *)
(* requests on /users/<id> by the admin (1), the headteacher (2) and the   *)
(* teacher (3), on a record of their own, on another's and on one that is  *)
(* missing. The admin has no profile, the headteacher a complete parent    *)
(* profile, the teacher a teacher profile that waits for approval.         *)
(* The admin also creates students in bulk, and admin and teacher update   *)
(* class 1.                                                                *)

InitUsers ==
    /\ users = [u \in DOMAIN initial_users |->
                    [username      |-> initial_users[u].role,
                     email         |-> <<"admin@school.example", "head@school.example",
                                         "teacher@school.example">>[u],
                     full_name     |-> "Name",
                     phone         |-> None,
                     password_hash |-> <<"pbkdf2", "secret">>,
                     role          |-> initial_users[u].role,
                     is_active     |-> TRUE,
                     profile       |->
                        [exists              |-> u # 1,
                         account_type        |-> IF u = 2 THEN "parent" ELSE "teacher",
                         is_profile_complete |-> u = 2]]]
    /\ classes = initial_classes
    /\ subjects = initial_subjects
    /\ students = EmptyDict
    /\ teacher_subjects = (1 :> new_assignment(assignment_body(3, 1, 1)))
    /\ timetable = EmptyDict
    /\ assessments = EmptyDict
    /\ performances = EmptyDict
    /\ sessions = EmptyDict
    /\ records = EmptyDict
    /\ resp = no_response
    /\ pc = [n |-> 0]

\* the bodies of an update: a plain field, the role, the active flag, a name
\* in use, an email in use after a new name, a password, a null email
user_bodies ==
    <<"full_name" :> "New Name",
      "role" :> "admin",
      "is_active" :> FALSE,
      ("phone" :> "0700") @@ ("role" :> "teacher"),
      "username" :> "admin",
      ("username" :> "new") @@ ("email" :> "admin@school.example"),
      "password" :> "changed",
      "email" :> None>>

NextUsers ==
    /\ request_made
    /\ LET own == {<<c, c, user_bodies[i]>> : c \in {1, 3}, i \in 1..Len(user_bodies)}
           others == {<<c, t, user_bodies[i]>> : c \in {1, 2, 3}, t \in {1, 3, 9}, i \in 1..3}
           \* a class update: a new name before a class teacher who is no
           \* teacher, and a new name alone
           class_bodies ==
                {("name" :> "Grade 5") @@ ("class_teacher_id" :> 2), "name" :> "Grade 5"}
           \* a bulk creation: one student, a student and an element without
           \* class, a student and an element of a missing class, one admission
           \* number twice, two students, and a body that is no array
           a(n, c) == ("admission_number" :> n) @@ ("full_name" :> "Ann") @@ ("class_id" :> c)
           list(items) == [is_list |-> TRUE, items |-> items]
           student_lists ==
                {list(<<a("A1", 1)>>),
                 list(<<a("A2", 2), without(a("A3", 1), "class_id")>>),
                 list(<<a("A2", 2), a("A3", 9)>>),
                 list(<<a("A2", 1), a("A2", 2)>>),
                 list(<<a("A2", 2), a("A1", 1)>>),
                 [is_list |-> FALSE, items |-> <<>>]}
       IN \/ \E r \in own \cup others : update_user(r[1], r[2], r[3])
          \/ \E r \in {q \in own \cup others : q[1] # 2 /\ q[2] # 1} :
                admin_update_user(r[1], r[2], r[3])
          \/ \E caller \in {1, 3}, user_id \in {1, 3, 9} : get_user(caller, user_id)
          \/ \E caller \in {1, 3}, user_id \in {1, 3, 9} : admin_get_user(caller, user_id)
          \/ \E caller \in {1, 3}, user_id \in {1, 2, 3, 9}, delivered \in BOOLEAN :
                approve_user(caller, user_id, delivered)
          \/ \E caller \in {1, 3}, class_id \in {1, 9}, data \in class_bodies :
                update_class(caller, class_id, data)
          \/ \E caller \in {1, 3}, data \in student_lists :
                bulk_create_students(caller, data)

SpecUsers == InitUsers /\ [][NextUsers]_vars


-----------------------------------------------------------------------------
(* views/performance.py, delete_performance, and the records               *)
(* specification: performances and attendance sessions in one store.       *)

\* the check with every teacher let through
may_change_record_teacher(caller, recorded_by) ==
    caller = recorded_by \/ role_in(caller, {"teacher", "headteacher", "admin"})

\* `current_user.id != performance.recorded_by and current_user.role not in
\* ['headteacher', 'admin']`, negated
may_change_record(caller, recorded_by) ==
    caller = recorded_by \/ role_in(caller, {"headteacher", "admin"})

delete_performance(caller, performance_id) ==
    LET op == "delete_performance" IN
    IF performance_id \notin DOMAIN performances
        THEN reject(op, caller, 404, performance_id)
    ELSE IF ~is_user(caller) THEN reject(op, caller, 500, performance_id)
    ELSE IF ~may_change_record(caller, performances[performance_id].recorded_by)
        THEN reject(op, caller, 403, performance_id)
    ELSE /\ performances' = delete_rows(performances, {performance_id})
         /\ respond(op, caller, 200, performance_id, None)
         /\ UNCHANGED <<users, classes, subjects, students, teacher_subjects,
                        timetable, assessments, sessions, records>>

\* The teacher (3) has recorded one performance and one attendance session
\* with one record; user 4 is a parent and user 5 a second teacher.
InitRecords ==
    /\ users = initial_users @@ (4 :> [role |-> "parent"]) @@ (5 :> [role |-> "teacher"])
    /\ classes = initial_classes
    /\ subjects = initial_subjects
    /\ students = (1 :> [class_id |-> 1]) @@ (2 :> [class_id |-> 2])
    /\ teacher_subjects = EmptyDict
    /\ timetable = EmptyDict
    /\ assessments = (1 :> [subject_id |-> 1, class_id |-> 1, max_score |-> 50])
    /\ performances = (1 :> new_performance(performance_body(1, 3, "score" :> 40)))
    /\ sessions = (1 :> [date |-> strptime["2024-01-15"], class_id |-> 1,
                         subject_id |-> 1, recorded_by |-> 3])
    /\ records = (1 :> [session_id |-> 1, student_id |-> 1, status |-> "present"])
    /\ resp = no_response
    /\ pc = [n |-> 0]

\* every caller on the teacher's rows, the recorders on the second teacher's
\* rows, the parent on a row that does not exist; bodies that name a recorder:
\* the caller or another user on a create, the headteacher on an update
NextRecords ==
    /\ request_made
    /\ LET on_rows == {<<caller, 1>> : caller \in 1..5} \cup {<<3, 2>>, <<5, 2>>, <<4, 9>>}
           by_head == "recorded_by" :> 2
       IN \/ \E r \in {5, 3} : create_performance(5, performance_body(1, r, "score" :> 30))
          \/ \E r \in on_rows, data \in {"score" :> 45, "score" :> NoId,
                                          ("score" :> 45) @@ by_head} :
                /\ data = ("score" :> NoId) => r[1] = 3
                /\ has(data, "recorded_by") => r[1] \in {1, 2}
                /\ update_performance(r[1], r[2], data)
          \/ \E r \in on_rows : delete_performance(r[1], r[2])
          \/ \E recorder \in opt("recorded_by", {3}) :
                create_attendance_session(5,
                    session_body("date" :> "2024-1-16", "class_id" :> 2,
                                 <<attendance_record(2, "late")>>) @@ recorder)
          \/ \E r \in on_rows, data \in {"records" :> <<attendance_record(1, "absent")>>,
                                          "records" :> <<>>,
                                          ("date" :> "2024-1-16") @@ by_head} :
                /\ data = ("records" :> <<>>) => r[1] = 3
                /\ has(data, "recorded_by") => r[1] \in {1, 2}
                /\ update_attendance_session(r[1], r[2], data)
          \/ \E r \in on_rows : delete_attendance_session(r[1], r[2])

SpecRecords == InitRecords /\ [][NextRecords]_vars


-----------------------------------------------------------------------------
(* views/reports.py                                                        *)
(* A report reads the store and changes nothing. Its query arguments are a *)
(* dict, kept as the target of the response; an argument that is absent    *)
(* from the dict applies no filter. A                                      *)
(* value rounded to two decimals is given in hundredths (66.67 is 6667);   *)
(* scores are whole numbers and the arithmetic on them is exact.           *)

\* round(num / den, 2), in hundredths: Python rounds a tie to the even digit
round2(num, den) ==
    LET q == (100 * num) \div den
        r == (100 * num) % den
    IN IF 2 * r > den \/ (2 * r = den /\ q % 2 = 1) THEN q + 1 ELSE q

\* `(present / total * 100) if total > 0 else 0`, then round(.., 2)
attendance_rate(present, total) ==
    IF total > 0 THEN round2(100 * present, total) ELSE 0

\* the 'from' and 'to' arguments: whether one does not parse (ValueError), and
\* the sessions the two filters keep
date_filters(args) ==
    LET given(k) == has(args, k)
        leq(a, b) == \/ a[1] < b[1]
                     \/ a[1] = b[1] /\ a[2] < b[2]
                     \/ a[1] = b[1] /\ a[2] = b[2] /\ a[3] <= b[3]
        invalid == \E k \in {"from", "to"} : given(k) /\ args[k] \notin DOMAIN strptime
    IN [invalid |-> invalid,
        keep    |-> IF invalid THEN {}
                    ELSE {s \in DOMAIN sessions :
                            /\ given("from") => leq(strptime[args.from], sessions[s].date)
                            /\ given("to") => leq(sessions[s].date, strptime[args.to])}]

\* the filter with subject and class matched on one assignment
teacher_filter_class_teacher_only(caller, class_id, subject_ids) ==
    users[caller].role = "teacher" => classes[class_id].class_teacher_id = caller

teacher_filter_pairs(caller, class_id, subject_ids) ==
    LET taught_subjects == refs(teacher_subjects, "teacher_id", caller) IN
    users[caller].role = "teacher" =>
        \/ classes[class_id].class_teacher_id = caller
        \/ \E a \in taught_subjects :
                /\ teacher_subjects[a].class_id = class_id
                /\ subject_ids \subseteq {teacher_subjects[a].subject_id}

\* the filter with the class of the assignment left out
teacher_filter_subjects_only(caller, class_id, subject_ids) ==
    LET taught_subjects == refs(teacher_subjects, "teacher_id", caller) IN
    users[caller].role = "teacher" =>
        \/ classes[class_id].class_teacher_id = caller
        \/ subject_ids \subseteq {teacher_subjects[a].subject_id : a \in taught_subjects}

\* the filter a report adds for a teacher: the class is the caller's as class
\* teacher, or is the class of one of the caller's assignments and every
\* subject of the row (none in an attendance report) the subject of one
teacher_filter(caller, class_id, subject_ids) ==
    LET taught_subjects == refs(teacher_subjects, "teacher_id", caller) IN
    users[caller].role = "teacher" =>
        \/ classes[class_id].class_teacher_id = caller
        \/ /\ class_id \in {teacher_subjects[a].class_id : a \in taught_subjects}
           /\ subject_ids \subseteq {teacher_subjects[a].subject_id : a \in taught_subjects}

\* Class joined with its sessions and their records, one group for a class
get_class_attendance_summary(caller, args) ==
    LET op == "get_class_attendance_summary"
        target == args
        joined(c) == {r \in DOMAIN records :
                        /\ records[r].session_id \in date_filters(args).keep
                        /\ sessions[records[r].session_id].class_id = c}
        present(c) == Cardinality({r \in joined(c) : records[r].status = "present"})
        results == {c \in DOMAIN classes :
                        /\ joined(c) # {}
                        /\ has(args, "class_id") => args.class_id = c
                        /\ teacher_filter(caller, c, {})}
    IN
    IF ~is_user(caller) THEN reject(op, caller, 500, target)
    ELSE IF ~role_in(caller, {"teacher", "headteacher", "admin"})
        THEN reject(op, caller, 403, target)
    ELSE IF date_filters(args).invalid THEN reject(op, caller, 400, target)
    ELSE /\ UNCHANGED store
         /\ respond(op, caller, 200, target,
                [c \in results |->
                    [total_sessions  |-> Cardinality(joined(c)),
                     total_records   |-> Cardinality(joined(c)),
                     present_count   |-> present(c),
                     attendance_rate |-> attendance_rate(present(c),
                                                         Cardinality(joined(c)))]])

\* Student joined with the class, the records and their sessions: one row
\* for a record of a student who is in a class
get_student_attendance_details(caller, args) ==
    LET op == "get_student_attendance_details"
        target == args
        class_of(r) == students[records[r].student_id].class_id
        results == {r \in DOMAIN records :
                        /\ records[r].student_id \in DOMAIN students
                        /\ class_of(r) \in DOMAIN classes
                        /\ records[r].session_id \in date_filters(args).keep
                        /\ has(args, "class_id") => args.class_id = class_of(r)
                        /\ has(args, "student_id") => args.student_id = records[r].student_id
                        /\ teacher_filter(caller, class_of(r), {})}
    IN
    IF ~is_user(caller) THEN reject(op, caller, 500, target)
    ELSE IF ~role_in(caller, {"teacher", "headteacher", "admin"})
        THEN reject(op, caller, 403, target)
    ELSE IF date_filters(args).invalid THEN reject(op, caller, 400, target)
    ELSE /\ UNCHANGED store
         /\ respond(op, caller, 200, target,
                [r \in results |->
                    [student_id |-> records[r].student_id,
                     class_name |-> classes[class_of(r)].name,
                     stream     |-> classes[class_of(r)].stream,
                     date       |-> sessions[records[r].session_id].date,
                     status     |-> records[r].status]])

\* sum(scores) over the rows of a group that have a score
RECURSIVE sum_scores(_)
sum_scores(ids) ==
    IF ids = {} THEN 0
    ELSE LET p == CHOOSE p \in ids : TRUE
         IN (IF performances[p].score = NoId THEN 0 ELSE performances[p].score)
            + sum_scores(ids \ {p})

\* func.avg, func.max and func.min skip NULL and give NULL for no score; the
\* report keeps a value only `if` it is truthy: 0 is answered as None
sql_statistics(ids) ==
    LET scored == {p \in ids : performances[p].score # NoId}
        scores == {performances[p].score : p \in scored}
        highest == CHOOSE s \in scores : \A t \in scores : t <= s
        lowest == CHOOSE s \in scores : \A t \in scores : s <= t
    IN [record_count  |-> Cardinality(ids),
        average_score |-> IF scored = {} \/ sum_scores(scored) = 0 THEN NoId
                          ELSE round2(sum_scores(scored), Cardinality(scored)),
        highest_score |-> IF scored = {} \/ highest = 0 THEN NoId ELSE highest,
        lowest_score  |-> IF scored = {} \/ lowest = 0 THEN NoId ELSE lowest]

\* the performance rows joined with their student's class, their assessment
\* and its subject
joined_performances(args) ==
    {p \in DOMAIN performances :
        /\ performances[p].student_id \in DOMAIN students
        /\ students[performances[p].student_id].class_id \in DOMAIN classes
        /\ performances[p].assessment_id \in DOMAIN assessments
        /\ assessments[performances[p].assessment_id].subject_id \in DOMAIN subjects
        /\ has(args, "class_id") =>
              args.class_id = students[performances[p].student_id].class_id
        /\ has(args, "student_id") => args.student_id = performances[p].student_id
        /\ has(args, "subject_id") =>
              args.subject_id = assessments[performances[p].assessment_id].subject_id}

\* reports.py, /reports/performance/class-summary: one group for a class and
\* an assessment; the class is the class of the student. The 'type' and
\* 'is_cbc' filters are on columns that are not modelled.
reports_get_class_performance_summary(caller, args) ==
    LET op == "reports_get_class_performance_summary"
        target == args
        joined(c, a) == {p \in joined_performances(without(args, "student_id")) :
                            /\ students[performances[p].student_id].class_id = c
                            /\ performances[p].assessment_id = a}
        results == {g \in (DOMAIN classes) \X (DOMAIN assessments) :
                        /\ joined(g[1], g[2]) # {}
                        /\ teacher_filter(caller, g[1], {assessments[g[2]].subject_id})}
    IN
    IF ~is_user(caller) THEN reject(op, caller, 500, target)
    ELSE IF ~role_in(caller, {"teacher", "headteacher", "admin"})
        THEN reject(op, caller, 403, target)
    ELSE /\ UNCHANGED store
         /\ respond(op, caller, 200, target,
                [g \in results |->
                    [class_id   |-> g[1],
                     subject_id |-> assessments[g[2]].subject_id,
                     max_score  |-> assessments[g[2]].max_score,
                     statistics |-> sql_statistics(joined(g[1], g[2]))]])

\* `(score / max_score * 100) if score is not None and max_score > 0 else
\* None`, rounded: for a row with a score, None > 0 raises TypeError
percentage(score, max_score) ==
    IF score = NoId THEN [raises |-> FALSE, value |-> NoId]
    ELSE IF max_score = NoId THEN [raises |-> TRUE, value |-> NoId]
    ELSE IF max_score > 0 THEN [raises |-> FALSE, value |-> round2(100 * score, max_score)]
    ELSE [raises |-> FALSE, value |-> NoId]

\* one row for a performance; the TypeError is caught by `except Exception`
get_student_performance_details(caller, args) ==
    LET op == "get_student_performance_details"
        target == args
        max_score(p) == assessments[performances[p].assessment_id].max_score
        results == {p \in joined_performances(args) :
                        teacher_filter(caller, students[performances[p].student_id].class_id,
                                       {assessments[performances[p].assessment_id].subject_id})}
    IN
    IF ~is_user(caller) THEN reject(op, caller, 500, target)
    ELSE IF ~role_in(caller, {"teacher", "headteacher", "admin"})
        THEN reject(op, caller, 403, target)
    ELSE IF \E p \in results : percentage(performances[p].score, max_score(p)).raises
        THEN reject(op, caller, 500, target)
    ELSE /\ UNCHANGED store
         /\ respond(op, caller, 200, target,
                [p \in results |->
                    [student_id    |-> performances[p].student_id,
                     class_id      |-> students[performances[p].student_id].class_id,
                     assessment_id |-> performances[p].assessment_id,
                     max_score     |-> max_score(p),
                     score         |-> performances[p].score,
                     percentage    |-> percentage(performances[p].score,
                                                  max_score(p)).value]])


\* /reports/progress/student/<id>. A student in no class has no class_:
\* AttributeError; a subject average over a NULL max_score, and a score
\* over a NULL max_score, raise TypeError; nothing catches them (500).
\* limit(5) keeps every row of the stores drawn here.
get_student_progress_report(caller, student_id) ==
    LET op == "get_student_progress_report"
        in_class == students[student_id].class_id \in DOMAIN classes
        days == refs(records, "student_id", student_id)
        present == {r \in days : records[r].status = "present"}
        mine == joined_performances("student_id" :> student_id)
        max_score(p) == assessments[performances[p].assessment_id].max_score
        subject(p) == assessments[performances[p].assessment_id].subject_id
        group(p) == {q \in mine : subject(q) = subject(p) /\ max_score(q) = max_score(p)}
        average(p) == sql_statistics(group(p)).average_score
    IN
    IF student_id \notin DOMAIN students THEN reject(op, caller, 404, student_id)
    ELSE IF ~is_user(caller) THEN reject(op, caller, 500, student_id)
    ELSE IF role_in(caller, {"teacher"}) /\ ~in_class THEN reject(op, caller, 500, student_id)
    ELSE IF role_in(caller, {"teacher"})
            /\ ~teacher_filter(caller, students[student_id].class_id, {})
        THEN reject(op, caller, 403, student_id)
    ELSE IF \E p \in mine : average(p) # NoId /\ max_score(p) = NoId
        THEN reject(op, caller, 500, student_id)
    ELSE IF \E p \in mine : percentage(performances[p].score, max_score(p)).raises
        THEN reject(op, caller, 500, student_id)
    ELSE IF ~in_class THEN reject(op, caller, 500, student_id)
    ELSE /\ UNCHANGED store
         /\ respond(op, caller, 200, student_id,
                [attendance |->
                    [total_days      |-> Cardinality(days),
                     present_days    |-> IF days = {} THEN NoId ELSE Cardinality(present),
                     attendance_rate |-> attendance_rate(Cardinality(present),
                                                         Cardinality(days))],
                 subject_performance |->
                    [g \in {<<subject(p), max_score(p)>> : p \in mine} |->
                        LET p == CHOOSE p \in mine : <<subject(p), max_score(p)>> = g
                            sum == sum_scores(group(p))
                            scored == Cardinality({q \in group(p) :
                                                      performances[q].score # NoId})
                        IN [assessment_count   |-> Cardinality(group(p)),
                            average_score      |-> average(p),
                            average_percentage |->
                                IF average(p) # NoId /\ g[2] > 0
                                THEN round2(100 * sum, scored * g[2]) ELSE NoId]],
                 recent_assessments |->
                    [p \in mine |->
                        [score      |-> performances[p].score,
                         max_score  |-> max_score(p),
                         percentage |-> percentage(performances[p].score,
                                                   max_score(p)).value]]])

-----------------------------------------------------------------------------
(* views/attendance.py: the attendance of a student, the summary of a day. *)

\* any caller with a token; the response reads student.class_
get_student_attendance(caller, student_id, args) ==
    LET op == "get_student_attendance"
        results == {r \in refs(records, "student_id", student_id) :
                        records[r].session_id \in date_filters(args).keep}
        present == {r \in results : records[r].status = "present"}
    IN
    IF student_id \notin DOMAIN students THEN reject(op, caller, 404, student_id)
    ELSE IF date_filters(args).invalid THEN reject(op, caller, 400, student_id)
    ELSE IF students[student_id].class_id \notin DOMAIN classes
        THEN reject(op, caller, 500, student_id)
    ELSE /\ UNCHANGED store
         /\ respond(op, caller, 200, student_id,
                [attendance_records |-> results,
                 statistics |->
                    [total_days      |-> Cardinality(results),
                     present_days    |-> Cardinality(present),
                     attendance_rate |-> attendance_rate(Cardinality(present),
                                                         Cardinality(results))]])

\* the sessions of one day: the school-wide ones together, the others by
\* class; a group gets its 'attendance_rate' key only if it has a record
get_daily_attendance_summary(caller, args) ==
    LET op == "get_daily_attendance_summary"
        on_day == {s \in DOMAIN sessions : sessions[s].date = strptime[args.date]}
        school_wide == {s \in on_day : sessions[s].is_school_wide}
        of_class(c) == {s \in on_day \ school_wide : sessions[s].class_id = c}
        group(of_sessions) ==
            LET all == {r \in DOMAIN records : records[r].session_id \in of_sessions}
                present == Cardinality({r \in all : records[r].status = "present"})
            IN [total_students |-> Cardinality(all), present_count |-> present]
               @@ IF Cardinality(all) > 0
                  THEN "attendance_rate" :> round2(100 * present, Cardinality(all))
                  ELSE EmptyDict
    IN
    IF ~is_user(caller) THEN reject(op, caller, 500, args)
    ELSE IF ~role_in(caller, {"headteacher", "admin"}) THEN reject(op, caller, 403, args)
    ELSE IF args.date \notin DOMAIN strptime THEN reject(op, caller, 400, args)
    ELSE IF \E s \in on_day \ school_wide : sessions[s].class_id \notin DOMAIN classes
        THEN reject(op, caller, 500, args)
    ELSE /\ UNCHANGED store
         /\ respond(op, caller, 200, args,
                [total_sessions |-> Cardinality(on_day),
                 school_wide    |-> group(school_wide),
                 classes        |->
                    [c \in {sessions[s].class_id : s \in on_day \ school_wide} |->
                        [total_sessions |-> Cardinality(of_class(c))]
                        @@ group(of_class(c))]])

-----------------------------------------------------------------------------
(* views/performance.py: the statistics of an assessment and of a class.   *)

\* the statistics over every row, the rows with no score counted in
statistics_all_rows(ids) ==
    LET scored == {p \in ids : performances[p].score # NoId}
        scores == {performances[p].score : p \in scored}
    IN IF scored = {} THEN EmptyDict
       ELSE [average |-> round2(sum_scores(scored), Cardinality(ids)),
             highest |-> CHOOSE s \in scores : \A t \in scores : t <= s,
             lowest  |-> CHOOSE s \in scores : \A t \in scores : s <= t,
             count   |-> Cardinality(ids)]

\* `scores = [p.score for p in performances if p.score is not None]`; the
\* statistics stay {} `if scores` is an empty list
statistics(ids) ==
    LET scored == {p \in ids : performances[p].score # NoId}
        scores == {performances[p].score : p \in scored}
    IN IF scored = {} THEN EmptyDict
       ELSE [average |-> round2(sum_scores(scored), Cardinality(scored)),
             highest |-> CHOOSE s \in scores : \A t \in scores : t <= s,
             lowest  |-> CHOOSE s \in scores : \A t \in scores : s <= t,
             count   |-> Cardinality(scored)]

get_assessment_performances(caller, assessment_id) ==
    LET op == "get_assessment_performances"
        of_assessment == refs(performances, "assessment_id", assessment_id)
    IN
    IF assessment_id \notin DOMAIN assessments THEN reject(op, caller, 404, assessment_id)
    ELSE /\ UNCHANGED store
         /\ respond(op, caller, 200, assessment_id,
                [performances |-> [p \in of_assessment |-> performances[p].score],
                 statistics   |-> statistics(of_assessment)])

\* performance.py, /classes/<id>/performance-summary: the assessments of the
\* class, of one subject if 'subject_id' is given
get_class_performance_summary(caller, class_id, args) ==
    LET op == "get_class_performance_summary"
        of_class == {a \in refs(assessments, "class_id", class_id) :
                        has(args, "subject_id") => args.subject_id = assessments[a].subject_id}
    IN
    IF class_id \notin DOMAIN classes THEN reject(op, caller, 404, class_id)
    ELSE /\ UNCHANGED store
         /\ respond(op, caller, 200, class_id,
                [a \in of_class |->
                    [max_score         |-> assessments[a].max_score,
                     performance_count |->
                        Cardinality(refs(performances, "assessment_id", a)),
                     statistics        |->
                        statistics(refs(performances, "assessment_id", a))]])

-----------------------------------------------------------------------------
(* The reports specification: one report is asked of a store drawn from    *)
(* the rows below. The teacher (3) is class teacher of class 1 and may     *)
(* hold an assignment in class 2; student 3 is in no class; sessions 1 and *)
(* 2 are of class 1, sessions 3 and 4 of class 2, session 4 school-wide.   *)
(* Assessment 2, of class 2, is of subject 1 or of a second subject, which *)
(* the teacher does not teach, or teaches in class 1 only.                 *)

\* the longest list of records, and of performances, the store is drawn with
MaxRows == 3

InitReports ==
    /\ users = initial_users @@ (4 :> [role |-> "parent", full_name |-> "Parent"])
    /\ classes = initial_classes
    /\ students = (1 :> [class_id |-> 1]) @@ (2 :> [class_id |-> 2])
                  @@ (3 :> [class_id |-> NoId])
    /\ timetable = EmptyDict
    /\ sessions =
          [s \in 1..4 |->
              [date           |-> IF s = 2 THEN strptime["2024-1-16"]
                                  ELSE strptime["2024-01-15"],
               class_id       |-> <<1, 1, 2, 2>>[s],
               subject_id     |-> 1,
               is_school_wide |-> s = 4,
               recorded_by    |-> 3]]
    /\ \E n \in 0..MaxRows, attendance \in BOOLEAN :
       \E second \in {s \in {[subject |-> 1, taught |-> {}],
                             [subject |-> 1, taught |-> {<<1, 2>>}],
                             [subject |-> 2, taught |-> {<<1, 2>>}],
                             [subject |-> 2, taught |-> {<<1, 2>>, <<2, 1>>}]} :
                        attendance => s.subject = 1} :
          /\ subjects =
                IF second.subject = 1 THEN initial_subjects
                ELSE initial_subjects
                     @@ (2 :> [name |-> "English", code |-> "ENG101", is_core |-> TRUE])
          /\ teacher_subjects =
                IF second.taught = {} THEN EmptyDict
                ELSE IF second.taught = {<<1, 2>>}
                    THEN 1 :> new_assignment(assignment_body(3, 1, 2))
                ELSE (1 :> new_assignment(assignment_body(3, 1, 2)))
                     @@ (2 :> new_assignment(assignment_body(3, 2, 1)))
          /\ \E max_score \in IF attendance \/ second.subject = 2 THEN {50}
                               ELSE {50, 0, NoId} :
                assessments =
                    (1 :> [subject_id |-> 1, class_id |-> 1, max_score |-> 100])
                    @@ (2 :> [subject_id |-> second.subject, class_id |-> 2,
                              max_score |-> max_score])
          /\ records \in
                IF attendance
                THEN [1..n -> {[session_id |-> r[1], student_id |-> r[2], status |-> r[3]] :
                                  r \in {<<1, 1, "present">>, <<2, 1, "absent">>,
                                         <<2, 1, "present">>, <<3, 2, "present">>,
                                         <<4, 2, "late">>}}]
                ELSE {<<[session_id |-> 1, student_id |-> 1, status |-> "present"]>>}
          /\ performances \in
                IF attendance
                THEN {<<new_performance(performance_body(1, 3, "score" :> 85))>>}
                ELSE [1..n -> {[student_id |-> r[1], assessment_id |-> r[1],
                                recorded_by |-> 3, score |-> r[2]] :
                                  r \in {<<1, NoId>>, <<1, 0>>, <<1, 45>>,
                                         <<1, 85>>, <<2, 40>>}}]
    /\ resp = no_response
    /\ pc = [n |-> 0]

\* the admin and the teacher ask with every argument, the headteacher and
\* the parent with none
NextReports ==
    /\ pc.n = 0
    /\ pc' = [n |-> 1]
    /\ \/ \E r \in {<<caller, args>> :
                        caller \in {1, 3},
                        args \in opt("class_id", {1, 2})
                                 \cup {"student_id" :> 1, "from" :> "2024-1-16",
                                       "to" :> "2024-01-15", "from" :> "15/01/2024"}}
                    \cup {<<2, EmptyDict>>, <<4, EmptyDict>>} :
              \/ get_class_attendance_summary(r[1], r[2])
              \/ get_student_attendance_details(r[1], r[2])
              \/ reports_get_class_performance_summary(r[1], r[2])
              \/ get_student_performance_details(r[1], r[2])
       \/ \E caller \in {1, 3, 4}, student_id \in {1, 2, 3, 9} :
              \/ get_student_progress_report(caller, student_id)
              \/ \E args \in opt("to", {"2024-01-15", "15/01/2024"}) :
                    get_student_attendance(caller, student_id, args)
       \/ \E caller \in {1, 2, 3}, date \in {"2024-01-15", "2024-1-16", "15/01/2024"} :
              get_daily_attendance_summary(caller, "date" :> date)
       \/ \E caller \in {3}, id \in {1, 2, 9} :
              \/ get_assessment_performances(caller, id)
              \/ \E args \in opt("subject_id", {1, 2}) :
                    get_class_performance_summary(caller, id, args)

SpecReports == InitReports /\ [][NextReports]_vars


-----------------------------------------------------------------------------
(* views/email_service.py and views/auth.py: the mails with retries.       *)
(* A handler that sends such a mail runs in steps, one step up to the call *)
(* of the mail function and one step for each pass of its retry loop; pc   *)
(* holds the handler that is running (pc.at), the loop variable            *)
(* (pc.attempt), the number of mail.send calls made (pc.sends), whether    *)
(* the last of them succeeded (pc.delivered) and the value the mail        *)
(* function returned (pc.result); pc.n counts the requests begun. Whether  *)
(* mail.send raises is the mail server's choice, `delivered`. In a user    *)
(* row, profile tells whether the user has a profile.                      *)

max_retries == 3

\* the loop with the exception of the last attempt let through to the caller
send_verification_email_raises(attempt, delivered) ==
    IF delivered
        THEN [returns |-> TRUE, value |-> "True", raises |-> FALSE, attempt |-> attempt]
    ELSE IF attempt < max_retries - 1
        THEN [returns |-> FALSE, value |-> None, raises |-> FALSE, attempt |-> attempt + 1]
    ELSE [returns |-> FALSE, value |-> None, raises |-> TRUE, attempt |-> attempt]

\* one pass of `for attempt in range(max_retries)`: mail.send succeeds and the
\* function returns True; or it raises, and the function sleeps and continues
\* with the next attempt, or after the last attempt returns False. No
\* exception of mail.send leaves the function.
send_verification_email(attempt, delivered) ==
    IF delivered
        THEN [returns |-> TRUE, value |-> "True", raises |-> FALSE, attempt |-> attempt]
    ELSE IF attempt < max_retries - 1
        THEN [returns |-> FALSE, value |-> None, raises |-> FALSE, attempt |-> attempt + 1]
    ELSE [returns |-> TRUE, value |-> "False", raises |-> FALSE, attempt |-> attempt]

\* the same loop, written a second time in the source
send_password_reset_email(attempt, delivered) ==
    IF delivered
        THEN [returns |-> TRUE, value |-> "True", raises |-> FALSE, attempt |-> attempt]
    ELSE IF attempt < max_retries - 1
        THEN [returns |-> FALSE, value |-> None, raises |-> FALSE, attempt |-> attempt + 1]
    ELSE [returns |-> TRUE, value |-> "False", raises |-> FALSE, attempt |-> attempt]

\* register. From idle: the checks, the new user and the token, both
\* committed, then the call of send_verification_email. While the mail
\* function runs: one pass of its loop, and when it returns, the success
\* response whatever it returned; an exception out of it would reach
\* `except Exception` (the rollback has nothing to undo, 500). users.email is
\* NOT NULL: a null email fails the first commit (rollback, 500).
register(data, delivered) ==
    LET op == "register"
        existing == {u \in DOMAIN users : has(data, "email") /\ users[u].email = data.email}
        begun == [pc EXCEPT !.n = @ + 1]
        done == [pc EXCEPT !.at = "idle", !.sends = @ + 1, !.delivered = delivered]
        mail == send_verification_email(pc.attempt, delivered)
    IN
    IF pc.at = "idle" THEN
        IF ~({"email", "password"} \subseteq DOMAIN data)
            THEN reject(op, NoId, 400, NoId) /\ pc' = begun
        ELSE IF \E u \in existing : ~users[u].is_email_verified \/ ~users[u].profile
            THEN reject(op, NoId, 200, NoId) /\ pc' = begun
        ELSE IF existing # {} THEN reject(op, NoId, 409, NoId) /\ pc' = begun
        ELSE IF data.email = None \/ data.password = None
            THEN reject(op, NoId, 500, NoId) /\ pc' = begun
        ELSE /\ users' = insert(users, [email                    |-> data.email,
                                        password_hash            |-> <<"pbkdf2", data.password>>,
                                        is_email_verified        |-> FALSE,
                                        email_verification_token |-> TRUE,
                                        is_active                |-> TRUE,
                                        profile                  |-> FALSE])
             /\ pc' = [begun EXCEPT !.at = op, !.attempt = 0, !.sends = 0,
                                 !.result = None, !.user = new_id(users)]
             /\ UNCHANGED <<resp, classes, subjects, students, teacher_subjects, timetable,
                            assessments, performances, sessions, records>>
    ELSE
        /\ UNCHANGED store
        /\ IF mail.raises
              THEN /\ respond(op, NoId, 500, pc.user, None)
                   /\ pc' = done
           ELSE IF mail.returns
              THEN /\ respond(op, NoId, 201, pc.user, "verify_email")
                   /\ pc' = [done EXCEPT !.result = mail.value]
           ELSE /\ pc' = [pc EXCEPT !.attempt = mail.attempt, !.sends = @ + 1,
                                !.delivered = delivered]
                /\ UNCHANGED resp

\* forgot_password. reset_token and reset_sent_at are no columns of User: the
\* commit stores nothing. An unknown email is answered as a known one.
forgot_password(data, delivered) ==
    LET op == "forgot_password"
        known == {u \in DOMAIN users : has(data, "email") /\ users[u].email = data.email}
        begun == [pc EXCEPT !.n = @ + 1]
        done == [pc EXCEPT !.at = "idle", !.sends = @ + 1, !.delivered = delivered]
        mail == send_password_reset_email(pc.attempt, delivered)
    IN
    /\ UNCHANGED store
    /\ IF pc.at = "idle" THEN
            IF ~has(data, "email")
                THEN respond(op, NoId, 400, NoId, None) /\ pc' = begun
            ELSE IF known = {}
                THEN respond(op, NoId, 200, NoId, None) /\ pc' = begun
            ELSE /\ pc' = [begun EXCEPT !.at = op, !.attempt = 0, !.sends = 0,
                                     !.result = None,
                                     !.user = CHOOSE u \in known : TRUE]
                 /\ UNCHANGED resp
       ELSE IF mail.raises
            THEN /\ respond(op, NoId, 500, pc.user, None)
                 /\ pc' = done
       ELSE IF mail.returns
            THEN /\ respond(op, NoId, 200, pc.user, None)
                 /\ pc' = [done EXCEPT !.result = mail.value]
       ELSE /\ pc' = [pc EXCEPT !.attempt = mail.attempt, !.sends = @ + 1,
                                !.delivered = delivered]
            /\ UNCHANGED resp

-----------------------------------------------------------------------------
(* The mail specification: at most MaxRequests registrations and password  *)
(* resets, one at a time, on a store with a verified user who has a        *)
(* profile (1) and a user whose registration is not complete (2). A        *)
(* handler that has begun goes on to its end.                              *)

InitMail ==
    /\ users = [u \in {1, 2} |->
                    [email                    |-> <<"admin@school.example",
                                                    "pending@school.example">>[u],
                     password_hash            |-> <<"pbkdf2", "secret">>,
                     is_email_verified        |-> u = 1,
                     email_verification_token |-> u = 2,
                     is_active                |-> TRUE,
                     profile                  |-> u = 1]]
    /\ classes = EmptyDict
    /\ subjects = EmptyDict
    /\ students = EmptyDict
    /\ teacher_subjects = EmptyDict
    /\ timetable = EmptyDict
    /\ assessments = EmptyDict
    /\ performances = EmptyDict
    /\ sessions = EmptyDict
    /\ records = EmptyDict
    /\ resp = no_response
    /\ pc = [n |-> 0, at |-> "idle", attempt |-> 0, sends |-> 0, delivered |-> FALSE,
             result |-> None, user |-> NoId]

NextMail ==
    LET emails == {"admin@school.example", "pending@school.example",
                   "new@school.example", "other@school.example"}
        bodies == {("email" :> e) @@ ("password" :> "secret") : e \in emails \cup {None}}
                  \cup {"email" :> "new@school.example", "password" :> "secret"}
    IN
    \/ pc.at = "idle" /\ pc.n < MaxRequests
       /\ \E data \in bodies : register(data, FALSE)
    \/ pc.at = "idle" /\ pc.n < MaxRequests
       /\ \E data \in bodies : forgot_password(data, FALSE)
    \/ pc.at = "register" /\ \E delivered \in BOOLEAN : register(EmptyDict, delivered)
    \/ pc.at = "forgot_password"
       /\ \E delivered \in BOOLEAN : forgot_password(EmptyDict, delivered)

SpecMail == InitMail /\ [][NextMail]_vars /\ WF_vars(NextMail)


-----------------------------------------------------------------------------
(* Timetable claims.                                                       *)

\* a room that is set: neither NULL nor the empty string
room_set(room) == room \notin {None, ""}

same_slot(a, b) == a.day = b.day /\ a.period = b.period

\* the scheduling exclusivity of a timetable
exclusive(table) ==
    \A a \in DOMAIN table, b \in DOMAIN table :
        (a # b /\ same_slot(table[a], table[b]))
        => /\ table[a].teacher_id # table[b].teacher_id
           /\ table[a].class_id # table[b].class_id
           /\ (room_set(table[a].room) => table[a].room # table[b].room)

\* C1: in every state reached by successful create, update and delete
\* requests, no two timetable entries share (day, period, teacher), none
\* share (day, period, class), and none with a room set share
\* (day, period, room).
C1_TimetableExclusive == exclusive(timetable)

\* a string with every letter lower-cased: two days are the same day when
\* they agree up to letter case
casefold(s) == [i \in 1..Len(s) |-> lower(s[i])]

\* the entries of the candidate's day and period
in_slot_of(cand) ==
    {e \in DOMAIN timetable :
        /\ casefold(timetable[e].day) = casefold(cand.day)
        /\ timetable[e].period = cand.period}

conflict_types(out) == {out.conflicts[i].type : i \in 1..Len(out.conflicts)}

\* C2: for a valid candidate, check_timetable_conflicts reports a teacher
\* conflict iff an entry of the same day and period has the candidate's
\* teacher, a class conflict iff one has its class, a room conflict iff the
\* candidate's room is non-empty and one has that room; every applicable
\* type is in the list, once, and has_conflicts tells whether the list is
\* non-empty.
C2_ConflictsReported ==
    (resp.op = "check_timetable_conflicts" /\ resp.status = 200) =>
        LET cand  == resp.out.candidate
            types == conflict_types(resp.out)
        IN  /\ "teacher" \in types <=>
                  \E e \in in_slot_of(cand) : timetable[e].teacher_id = cand.teacher_id
            /\ "class" \in types <=>
                  \E e \in in_slot_of(cand) : timetable[e].class_id = cand.class_id
            /\ "room" \in types <=>
                  /\ has(cand, "room")
                  /\ room_set(cand.room)
                  /\ \E e \in in_slot_of(cand) : timetable[e].room = cand.room
            /\ types \subseteq {"teacher", "class", "room"}
            /\ Len(resp.out.conflicts) = Cardinality(types)
            /\ resp.out.has_conflicts <=> Len(resp.out.conflicts) > 0

\* a check that reports all three conflicts, found on two different entries,
\* beside an entry of another period
C2_Witness ==
    /\ resp.op = "check_timetable_conflicts"
    /\ resp.status = 200
    /\ conflict_types(resp.out) = {"teacher", "class", "room"}
    /\ Cardinality({resp.out.conflicts[i].conflicting_entry : i \in 1..3}) = 2
    /\ resp.out.has_conflicts

\* C3: a create request for a (day, period, teacher) that an entry already
\* has is answered 409 and adds no entry: an entry that a 201 response
\* created shares its day, period and teacher with no other entry.
C3_DuplicateTeacherSlotRejected ==
    (resp.op = "create_timetable_entry" /\ resp.status = 201) =>
        \A e \in DOMAIN timetable \ {resp.target} :
            ~(/\ same_slot(timetable[e], timetable[resp.target])
              /\ timetable[e].teacher_id = timetable[resp.target].teacher_id)

\* no two entries of a timetable share (day, period, teacher)
teacher_exclusive(table) ==
    \A a \in DOMAIN table, b \in DOMAIN table :
        (a # b /\ same_slot(table[a], table[b]))
        => table[a].teacher_id # table[b].teacher_id

\* C4: when two clients both see no conflict and then both create an entry
\* for the same (day, period, teacher), at most one insert commits and the
\* other is answered 409, so no two entries share (day, period, teacher)
\* once both are done.
C4_RaceBackstop ==
    (/\ \A p \in race_clients : pc[p].at = "done"
     /\ \A p \in race_clients, q \in race_clients :
           pc[p].data.teacher_id = pc[q].data.teacher_id)
    => /\ teacher_exclusive(timetable)
       /\ \E p \in race_clients : pc[p].status # 201

-----------------------------------------------------------------------------
(* Academics claims.                                                       *)

\* C5: no two TeacherSubject rows have the same (teacher_id, subject_id,
\* class_id), whatever assign_teacher_to_subject, bulk_assign_teachers and
\* remove_teacher_subject_assignment requests were made: a duplicate
\* assignment is never stored.
C5_TeacherSubjectUnique ==
    \A a \in DOMAIN teacher_subjects, b \in DOMAIN teacher_subjects :
        teacher_subjects[a] = teacher_subjects[b] => a = b

\* the caller of the last request still has a row, with this role
caller_role(role) == resp'.caller \in DOMAIN users /\ users[resp'.caller].role = role

\* C8: delete_class by an admin on a class with no student and no
\* TeacherSubject assignment answers success and removes the class; on a
\* class with a student or an assignment it answers a client error of the
\* conflict kind (400 or 409 accepted) and changes nothing in the store.
C8_DeleteClass ==
    [][(resp'.op = "delete_class" /\ caller_role("admin")
            /\ resp'.target \in DOMAIN classes) =>
        IF /\ refs(students, "class_id", resp'.target) = {}
           /\ refs(teacher_subjects, "class_id", resp'.target) = {}
        THEN resp'.status = 200 /\ resp'.target \notin DOMAIN classes'
        ELSE resp'.status \in {400, 409} /\ UNCHANGED store]_vars

\* the create and update operations on classes, subjects, timetable entries
\* and assignments
manage_ops ==
    {"create_class", "update_class", "create_subject", "update_subject",
     "create_timetable_entry", "update_timetable_entry",
     "assign_teacher_to_subject", "bulk_assign_teachers", "set_academic_year"}

\* the row the last request names does not exist
target_missing ==
    \/ resp'.op \in {"update_class", "delete_class"} /\ resp'.target \notin DOMAIN classes
    \/ resp'.op \in {"update_subject", "delete_subject"}
          /\ resp'.target \notin DOMAIN subjects
    \/ resp'.op = "update_timetable_entry" /\ resp'.target \notin DOMAIN timetable
    \/ resp'.op \in {"delete_user", "admin_delete_user"}
          /\ resp'.target \notin DOMAIN users

\* the answer to a caller without the right: forbidden, or not found when the
\* row named does not exist
refused == resp'.status = 403 \/ (resp'.status = 404 /\ target_missing)

\* C9 as amended: a create or update request on classes, subjects, timetable
\* entries or assignments by a caller who is neither admin nor headteacher is
\* refused and leaves the store unchanged; an admin is never answered
\* forbidden; a headteacher is answered forbidden by the admin-only
\* operations bulk_assign_teachers and set_academic_year, and by no other.
C9_ManageRoles ==
    [][resp'.op \in manage_ops =>
        /\ (caller_role("teacher") \/ caller_role("parent")) =>
              refused /\ UNCHANGED store
        /\ caller_role("admin") => resp'.status # 403
        /\ caller_role("headteacher") =>
              (resp'.status = 403 <=>
                  resp'.op \in {"bulk_assign_teachers", "set_academic_year"})]_vars

\* a teacher's update of an existing class was answered forbidden
C9_Witness ==
    /\ resp.op = "update_class"
    /\ resp.caller \in DOMAIN users
    /\ users[resp.caller].role = "teacher"
    /\ resp.target \in DOMAIN classes
    /\ resp.status = 403

\* C9 as claimed: such a request by a caller who is neither admin nor
\* headteacher is refused and leaves the store unchanged, and neither an
\* admin nor a headteacher is answered forbidden.
C9_HeadteacherNeverForbidden ==
    [][resp'.op \in manage_ops =>
        /\ (caller_role("teacher") \/ caller_role("parent")) =>
              refused /\ UNCHANGED store
        /\ (caller_role("admin") \/ caller_role("headteacher")) =>
              resp'.status # 403]_vars

\* C10: a step that removes a User, Subject or Class row is a delete request
\* by a caller whose role is admin; a delete request by a caller of another
\* role (headteacher included) is refused and leaves the store unchanged.
C10_OnlyAdminDeletes ==
    [][/\ (\/ ~(DOMAIN users \subseteq DOMAIN users')
           \/ ~(DOMAIN subjects \subseteq DOMAIN subjects')
           \/ ~(DOMAIN classes \subseteq DOMAIN classes')) =>
              /\ resp'.op \in {"delete_class", "delete_subject", "delete_user",
                               "admin_delete_user"}
              /\ caller_role("admin")
       /\ (/\ resp'.op \in {"delete_class", "delete_subject", "delete_user",
                            "admin_delete_user"}
           /\ resp'.caller \in DOMAIN users
           /\ ~caller_role("admin")) =>
              refused /\ UNCHANGED store]_vars

\* a headteacher's delete of an existing class was answered forbidden, after
\* an admin's delete had removed another row
C10_Witness ==
    /\ resp.op = "delete_class"
    /\ resp.caller \in DOMAIN users
    /\ users[resp.caller].role = "headteacher"
    /\ resp.target \in DOMAIN classes
    /\ resp.status = 403
    /\ \/ DOMAIN users # academics_callers
       \/ DOMAIN subjects # DOMAIN initial_subjects
       \/ DOMAIN classes # DOMAIN initial_classes

-----------------------------------------------------------------------------
(* Performance claims.                                                     *)

\* C6: after any create_performance and update_performance requests, every
\* StudentPerformance with a score has score <= max_score of its assessment
\* (an update that gives only a score above the maximum is rejected, so no
\* such score is stored).
C6_ScoreWithinMax ==
    \A p \in DOMAIN performances :
        LET score     == performances[p].score
            max_score == assessments[performances[p].assessment_id].max_score
        IN  (score # NoId /\ max_score # NoId) => score <= max_score

-----------------------------------------------------------------------------
(* Attendance claims.                                                      *)

\* C7: after any create_attendance_session, update_attendance_session and
\* delete_attendance_session requests, every AttendanceRecord belongs to a
\* session, its student is in the class of that session, and its status is
\* one of present, absent, late, excused.
C7_RecordsOfTheClass ==
    \A r \in DOMAIN records :
        /\ records[r].session_id \in DOMAIN sessions
        /\ records[r].student_id \in DOMAIN students
        /\ students[records[r].student_id].class_id =
              sessions[records[r].session_id].class_id
        /\ records[r].status \in {"present", "absent", "late", "excused"}

\* an update has replaced the records of a session while sessions of both
\* classes hold records
C7_Witness ==
    /\ resp.op = "update_attendance_session"
    /\ resp.status = 200
    /\ refs(records, "session_id", resp.target) # {}
    /\ {sessions[records[r].session_id].class_id : r \in DOMAIN records} = {1, 2}

-----------------------------------------------------------------------------
(* User claims.                                                            *)

\* the callers and the records the user claims range over
user_ids == {1, 2, 3, 9}

C12_OwnRecord ==
    [][\A caller \in DOMAIN users, user_id \in user_ids :
          /\ (caller = user_id
                /\ (get_user(caller, user_id) \/ admin_get_user(caller, user_id))) =>
                resp'.status = 200
          /\ \A i \in {j \in 1..Len(user_bodies) :
                          ~has(user_bodies[j], "role")
                          /\ ~has(user_bodies[j], "is_active")} :
                (caller = user_id
                   /\ (\/ update_user(caller, user_id, user_bodies[i])
                       \/ admin_update_user(caller, user_id, user_bodies[i]))) =>
                   resp'.status # 403
          /\ (/\ caller # user_id
              /\ users[caller].role # "admin"
              /\ \/ get_user(caller, user_id)
                 \/ admin_get_user(caller, user_id)
                 \/ \E i \in 1..Len(user_bodies) :
                       \/ update_user(caller, user_id, user_bodies[i])
                       \/ admin_update_user(caller, user_id, user_bodies[i])) =>
                /\ resp'.status = 403
                      \/ (resp'.status = 404 /\ user_id \notin DOMAIN users)
                /\ UNCHANGED store]_vars


-----------------------------------------------------------------------------
(* Claims on the rows a caller has recorded.                               *)

\* C13: an update or delete request on an existing StudentPerformance or
\* AttendanceSession is answered forbidden exactly when the caller is neither
\* the recorder of the row nor a headteacher nor an admin, and a forbidden
\* request changes nothing: the row and the records of a session stay.
C13_RecorderOrHead ==
    [][\A id \in {resp'.target} :
          LET of_performance == resp'.op \in {"update_performance", "delete_performance"}
              of_session == resp'.op \in {"update_attendance_session",
                                          "delete_attendance_session"}
          IN (/\ resp'.caller \in DOMAIN users
              /\ \/ of_performance /\ id \in DOMAIN performances
                 \/ of_session /\ id \in DOMAIN sessions) =>
                /\ resp'.status = 403 <=>
                      ~(\/ resp'.caller = IF of_performance
                                          THEN performances[id].recorded_by
                                          ELSE sessions[id].recorded_by
                        \/ users[resp'.caller].role \in {"headteacher", "admin"})
                /\ resp'.status = 403 => UNCHANGED store]_vars

\* the second teacher's delete of the first teacher's session, which has a
\* record, was answered forbidden
C13_Witness ==
    /\ resp.op = "delete_attendance_session"
    /\ resp.caller = 5
    /\ resp.status = 403
    /\ resp.target \in DOMAIN sessions
    /\ sessions[resp.target].recorded_by = 3
    /\ refs(records, "session_id", resp.target) # {}


-----------------------------------------------------------------------------
(* Claims on requests that name a missing row.                             *)

\* C14: an update or delete request by an existing caller that names a row
\* not in the store is answered 404 whatever the caller's role; 403 is
\* answered only when the row exists.
C14_MissingIsNotFound ==
    [][(resp'.caller \in DOMAIN users /\ target_missing) => resp'.status = 404]_vars


-----------------------------------------------------------------------------
(* Report claims.                                                          *)

\* the class-summary and student-details reports on attendance and on
\* performance
scoped_reports ==
    {"get_class_attendance_summary", "get_student_attendance_details",
     "reports_get_class_performance_summary", "get_student_performance_details"}

\* the class of a row of such a report
row_class(key) ==
    CASE resp.op = "get_class_attendance_summary" -> key
      [] resp.op = "get_student_attendance_details" -> students[records[key].student_id].class_id
      [] resp.op = "reports_get_class_performance_summary" -> key[1]
      [] OTHER -> students[performances[key].student_id].class_id

\* the caller is class teacher of the class or holds an assignment for it
teaches(caller, class_id) ==
    \/ classes[class_id].class_teacher_id = caller
    \/ \E a \in DOMAIN teacher_subjects :
          teacher_subjects[a].teacher_id = caller /\ teacher_subjects[a].class_id = class_id

\* C15: every row of a class-summary or student-details report answered to
\* a teacher is of a class the teacher is class teacher of or holds an
\* assignment for; a teacher who asks for a class that is neither is answered
\* success with no row; the report answered to an admin or a headteacher is
\* the report with no filter but the arguments of the request.
C15_TeacherScope ==
    (resp.op \in scoped_reports /\ resp.status = 200) =>
        /\ users[resp.caller].role = "teacher" =>
              /\ \A key \in DOMAIN resp.out : teaches(resp.caller, row_class(key))
              /\ (has(resp.target, "class_id")
                    /\ ~teaches(resp.caller, resp.target.class_id)) =>
                    DOMAIN resp.out = {}
        /\ (users[resp.caller].role \in {"admin", "headteacher"}
              /\ resp.target = EmptyDict) =>
              \/ resp.op = "get_class_attendance_summary"
                    /\ \A r \in DOMAIN records :
                          sessions[records[r].session_id].class_id \in DOMAIN classes =>
                              sessions[records[r].session_id].class_id \in DOMAIN resp.out
              \/ resp.op = "get_student_attendance_details"
                    /\ \A r \in DOMAIN records :
                          students[records[r].student_id].class_id \in DOMAIN classes =>
                              r \in DOMAIN resp.out
              \/ resp.op = "reports_get_class_performance_summary"
                    /\ \A p \in DOMAIN performances :
                          <<students[performances[p].student_id].class_id,
                            performances[p].assessment_id>> \in DOMAIN resp.out
              \/ resp.op = "get_student_performance_details"
                    /\ DOMAIN resp.out = DOMAIN performances

\* the teacher asked the performance class-summary of class 2, where they
\* hold no assignment and a student has a performance, and got no row
C15_Witness ==
    /\ resp.op = "reports_get_class_performance_summary"
    /\ resp.caller = 3
    /\ resp.target = ("class_id" :> 2)
    /\ teacher_subjects = EmptyDict
    /\ \E p \in DOMAIN performances : performances[p].student_id = 2
    /\ resp.status = 200
    /\ DOMAIN resp.out = {}


\* the present records among a set of records
present_in(rows) == Cardinality({r \in rows : records[r].status = "present"})

\* rate, in hundredths, is present / total x 100 to the nearest hundredth,
\* and 0 for a group with no record
is_rate(rate, present, total) ==
    /\ 0 <= rate /\ rate <= 10000
    /\ IF total = 0 THEN rate = 0
       ELSE LET diff == rate * total - 10000 * present
            IN 2 * diff <= total /\ -2 * diff <= total

\* the groups of the daily summary: the school-wide sessions of the day and
\* the sessions of each class that has one
daily_groups ==
    {resp.out.school_wide} \cup {resp.out.classes[c] : c \in DOMAIN resp.out.classes}

\* C16: a report of an attendance rate that is answered gives, for each of
\* its groups, the rate present / total x 100 rounded to two decimals, in
\* 0..100, and 0 for a group with no record.
C16_AttendanceRate ==
    /\ (resp.op = "get_student_attendance" /\ resp.status = 200) =>
          is_rate(resp.out.statistics.attendance_rate,
                  present_in(resp.out.attendance_records),
                  Cardinality(resp.out.attendance_records))
    /\ (resp.op = "get_student_progress_report" /\ resp.status = 200) =>
          is_rate(resp.out.attendance.attendance_rate,
                  present_in(refs(records, "student_id", resp.target)),
                  Cardinality(refs(records, "student_id", resp.target)))
    /\ (resp.op = "get_class_attendance_summary" /\ resp.status = 200) =>
          \A c \in DOMAIN resp.out :
              is_rate(resp.out[c].attendance_rate, resp.out[c].present_count,
                      resp.out[c].total_records)
    /\ (resp.op = "get_daily_attendance_summary" /\ resp.status = 200) =>
          \A group \in daily_groups :
              /\ has(group, "attendance_rate")
              /\ is_rate(group.attendance_rate, group.present_count, group.total_students)


\* the rows of a set of performances that have a score, and their scores
scored_in(ids) == {p \in ids : performances[p].score # NoId}

\* the three statistics of a group are present exactly if a row of the group
\* has a score, and are 0, 0 and 0 if every score of the group is 0
present_iff_scored(ids, is_absent, average, highest, lowest) ==
    /\ is_absent <=> scored_in(ids) = {}
    /\ (scored_in(ids) # {} /\ \A p \in scored_in(ids) : performances[p].score = 0) =>
          ~is_absent /\ average = 0 /\ highest = 0 /\ lowest = 0

\* the same for the statistics dict of performance.py
dict_present_iff_scored(ids, stats) ==
    present_iff_scored(ids, stats = EmptyDict,
                       IF stats = EmptyDict THEN NoId ELSE stats.average,
                       IF stats = EmptyDict THEN NoId ELSE stats.highest,
                       IF stats = EmptyDict THEN NoId ELSE stats.lowest)

\* C17: in each report of score statistics that is answered, the average,
\* the highest and the lowest score of a group are absent exactly if no row
\* of the group has a score; a group whose scores are all 0 reports 0, 0, 0.
C17_StatisticsPresence ==
    resp.status = 200 =>
        /\ resp.op = "get_assessment_performances" =>
              dict_present_iff_scored(refs(performances, "assessment_id", resp.target),
                                      resp.out.statistics)
        /\ resp.op = "get_class_performance_summary" =>
              \A a \in DOMAIN resp.out :
                  dict_present_iff_scored(refs(performances, "assessment_id", a),
                                          resp.out[a].statistics)
        /\ resp.op = "reports_get_class_performance_summary" =>
              \A g \in DOMAIN resp.out :
                  LET stats == resp.out[g].statistics IN
                  present_iff_scored(
                      {p \in refs(performances, "assessment_id", g[2]) :
                          students[performances[p].student_id].class_id = g[1]},
                      stats.average_score = NoId /\ stats.highest_score = NoId
                          /\ stats.lowest_score = NoId,
                      stats.average_score, stats.highest_score, stats.lowest_score)
        /\ resp.op = "get_student_progress_report" =>
              \A g \in DOMAIN resp.out.subject_performance :
                  LET ids == {p \in refs(performances, "student_id", resp.target) :
                                /\ assessments[performances[p].assessment_id].subject_id = g[1]
                                /\ assessments[performances[p].assessment_id].max_score = g[2]}
                      average == resp.out.subject_performance[g].average_score
                  IN present_iff_scored(ids, average = NoId, average, 0, 0)

\* C18: the statistics of an assessment are those of exactly its rows with a
\* score: count is their number, average their mean to the nearest
\* hundredth, highest and lowest their maximum and minimum, whatever the
\* order of the rows; with no such row there are no statistics.
C18_StatisticsOfScoredRows ==
    LET holds(ids, stats) ==
            LET scored == scored_in(ids)
                diff == stats.average * Cardinality(scored) - 100 * sum_scores(scored)
            IN IF scored = {} THEN stats = EmptyDict
               ELSE /\ stats # EmptyDict
                    /\ stats.count = Cardinality(scored)
                    /\ 2 * diff <= stats.count /\ -2 * diff <= stats.count
                    /\ \E p \in scored : performances[p].score = stats.highest
                    /\ \E p \in scored : performances[p].score = stats.lowest
                    /\ \A p \in scored : /\ performances[p].score <= stats.highest
                                         /\ performances[p].score >= stats.lowest
    IN resp.status = 200 =>
        /\ resp.op = "get_assessment_performances" =>
              holds(refs(performances, "assessment_id", resp.target), resp.out.statistics)
        /\ resp.op = "get_class_performance_summary" =>
              \A a \in DOMAIN resp.out :
                  holds(refs(performances, "assessment_id", a), resp.out[a].statistics)

\* the assessment has a row with no score and the scores 85 and 45: count 2,
\* average 65.00, highest 85, lowest 45
C18_Witness ==
    /\ resp.op = "get_assessment_performances"
    /\ resp.target = 1
    /\ \E p \in DOMAIN performances : performances[p].score = NoId
    /\ resp.out.statistics = [average |-> 6500, highest |-> 85, lowest |-> 45, count |-> 2]

\* C19: a row of the student-details performance report and of the progress
\* report has the percentage score / max_score x 100 (to the hundredth)
\* exactly if it has a score and a max_score above 0, and no percentage
\* otherwise; the absence of either does not make the request fail.
C19_Percentage ==
    LET row_ok(row) ==
            IF row.score # NoId /\ row.max_score # NoId /\ row.max_score > 0
            THEN LET diff == row.percentage * row.max_score - 10000 * row.score
                 IN 2 * diff <= row.max_score /\ -2 * diff <= row.max_score
            ELSE row.percentage = NoId
    IN
    /\ (resp.op = "get_student_performance_details"
          /\ users[resp.caller].role \in {"teacher", "headteacher", "admin"}) =>
          resp.status = 200 /\ \A p \in DOMAIN resp.out : row_ok(resp.out[p])
    /\ (resp.op = "get_student_progress_report"
          /\ resp.target \in DOMAIN students
          /\ students[resp.target].class_id \in DOMAIN classes
          /\ resp.status # 403) =>
          /\ resp.status = 200
          /\ \A p \in DOMAIN resp.out.recent_assessments :
                row_ok(resp.out.recent_assessments[p])


-----------------------------------------------------------------------------
(* Claims on failed requests.                                              *)

\* C20: a request answered 500 leaves the store as it was before the
\* request: nothing a handler did is committed when it reports a failure.
C20_FailureChangesNothing ==
    [][resp'.status = 500 => UNCHANGED store]_vars


-----------------------------------------------------------------------------
(* Claims on rejected requests.                                            *)

\* C21: a request rejected for its body (a field missing or malformed, a
\* referenced row not found, a value in use: 400, 404 or 409) leaves the
\* store as it was, also when the fields before the offending one were
\* valid: update_class with a new name and a class teacher who is no
\* teacher, update_user with a new username and an email in use,
\* bulk_create_students with one element in error.
C21_RejectionChangesNothing ==
    [][resp'.status \in {400, 404, 409} => UNCHANGED store]_vars

\* a bulk creation was rejected for one element after an earlier one had
\* stored student A1: the valid element of the rejected list is not stored
C21_Witness ==
    /\ resp.op = "bulk_create_students"
    /\ resp.status = 400
    /\ DOMAIN students = {1}
    /\ students[1].admission_number = "A1"


-----------------------------------------------------------------------------
(* Claims on partial updates.                                              *)

\* every field the body supplies holds a value the handler accepts
supplied_valid(data) ==
    /\ has(data, "day") => capitalize(data.day) \in week_days
    /\ has(data, "period") => data.period \in 1..8
    /\ has(data, "subject_id") => data.subject_id \in DOMAIN subjects
    /\ has(data, "class_id") => data.class_id \in DOMAIN classes
    /\ has(data, "teacher_id") => data.teacher_id \in DOMAIN users

\* C22: an update of a timetable entry by the admin whose body supplies a
\* subset of the fields, each with a valid value, succeeds, changes exactly
\* the supplied fields of the entry and nothing else; a body with only 'room'
\* updates the room and keeps day, period, subject, class and teacher.
C22_PartialUpdate ==
    [][\A data \in timetable_update_bodies, entry_id \in DOMAIN timetable :
          (supplied_valid(data) /\ update_timetable_entry(1, entry_id, data))
          => /\ resp'.status = 200
             /\ DOMAIN timetable' = DOMAIN timetable
             /\ \A e \in DOMAIN timetable \ {entry_id} : timetable'[e] = timetable[e]
             /\ \A f \in DOMAIN timetable[entry_id] :
                    timetable'[entry_id][f] =
                        IF ~has(data, f) THEN timetable[entry_id][f]
                        ELSE IF f = "day" THEN capitalize(data.day)
                        ELSE data[f]]_vars


-----------------------------------------------------------------------------
(* Claims on the records of an attendance session.                         *)

\* every attendance record references a session of the table
records_owned(record_table, session_table) ==
    \A r \in DOMAIN record_table :
        record_table[r].session_id \in DOMAIN session_table

\* C23: in every reachable state each AttendanceRecord references an
\* AttendanceSession that exists; a successful delete_attendance_session
\* removes the session with all its records and leaves the records of every
\* other session as they were.
C23_RecordsDeletedWithSession ==
    /\ records_owned(records, sessions)
    /\ [][/\ records_owned(records', sessions')
          /\ (resp'.op = "delete_attendance_session" /\ resp'.status = 200)
             => /\ resp'.target \in DOMAIN sessions \ DOMAIN sessions'
                /\ refs(records', "session_id", resp'.target) = {}
                /\ records' = delete_rows(records,
                                          refs(records, "session_id", resp'.target))]_vars

\* session 1 was deleted with its records while session 2 keeps its own
C23_Witness ==
    /\ resp.op = "delete_attendance_session"
    /\ resp.status = 200
    /\ resp.target = 1
    /\ DOMAIN sessions = {2}
    /\ records # EmptyDict


-----------------------------------------------------------------------------
(* Claims on the mails.                                                    *)

\* C24: send_verification_email and send_password_reset_email call mail.send
\* at most three times, stop at the first call that succeeds, return False
\* after the third failure and always come to an end; a failed delivery is
\* never a failed request: the handler that sent the mail answers with its
\* success response, and the user register created is in the store.
C24_BoundedRetries ==
    /\ [](pc.sends <= 3)
    /\ [][pc.at # "idle" =>
            /\ pc'.sends = pc.sends + 1
            /\ pc'.at \in {pc.at, "idle"}
            /\ (pc'.at = "idle") <=> (pc'.delivered \/ pc'.sends = 3)
            /\ pc'.at = "idle" =>
                /\ pc'.result = (IF pc'.delivered THEN "True" ELSE "False")
                /\ resp'.op = pc.at
                /\ resp'.status = (IF pc.at = "register" THEN 201 ELSE 200)
                /\ resp'.target \in DOMAIN users'
            /\ UNCHANGED store]_vars
    /\ (pc.at # "idle") ~> (pc.at = "idle")

\* register has answered 201 after three failed deliveries, and its user is
\* stored
C24_Witness ==
    /\ pc.at = "idle"
    /\ pc.sends = 3
    /\ pc.result = "False"
    /\ resp.op = "register"
    /\ resp.status = 201
    /\ resp.target \in DOMAIN users
    /\ users[resp.target].email = "new@school.example"


-----------------------------------------------------------------------------
(* Claims on the day and the period of a timetable entry.                  *)

\* C25: every stored timetable entry has one of the seven capitalized
\* weekday names as its day and a period in 1..8; a day is stored and
\* compared in its capitalized form whatever the case it was sent in, so a
\* conflict check for 'monday' or 'TUESDAY' reports a teacher conflict iff an
\* entry stored under 'Monday' or 'Tuesday' has the period and the teacher.
C25_DayAndPeriod ==
    /\ \A e \in DOMAIN timetable :
            /\ timetable[e].day \in week_days
            /\ timetable[e].period \in 1..8
    /\ (resp.op = "check_timetable_conflicts" /\ resp.status = 200) =>
            LET cand == resp.out.candidate IN
            /\ cand.day \notin week_days
            /\ "teacher" \in conflict_types(resp.out) <=>
                    \E e \in DOMAIN timetable :
                        /\ timetable[e].day = capitalize(cand.day)
                        /\ timetable[e].period = cand.period
                        /\ timetable[e].teacher_id = cand.teacher_id

\* a check for 'monday' has reported the teacher of an entry stored under
\* Monday, period 8
C25_Witness ==
    /\ resp.op = "check_timetable_conflicts"
    /\ resp.status = 200
    /\ resp.out.candidate.day = monday_lc
    /\ "teacher" \in conflict_types(resp.out)
    /\ \E e \in DOMAIN timetable : timetable[e].day = Monday /\ timetable[e].period = 8


-----------------------------------------------------------------------------
(* Claims on the rows of a performance report.                             *)

\* the subject and the class are each of some assignment of the caller
taught_apart(caller, class_id, subject_id) ==
    /\ \E a \in DOMAIN teacher_subjects :
            /\ teacher_subjects[a].teacher_id = caller
            /\ teacher_subjects[a].subject_id = subject_id
    /\ \E a \in DOMAIN teacher_subjects :
            /\ teacher_subjects[a].teacher_id = caller
            /\ teacher_subjects[a].class_id = class_id

\* C26: in the class summary and the student details of reports.py, a
\* teacher who is not the class teacher of a row's class sees the row iff
\* the row's subject is the subject of one of the teacher's assignments and
\* the row's class the class of one of them, the same assignment or another.
C26_SubjectAndClassApart ==
    (/\ resp.op \in {"reports_get_class_performance_summary",
                     "get_student_performance_details"}
     /\ resp.status = 200
     /\ users[resp.caller].role = "teacher") =>
        LET class_of(p)   == students[performances[p].student_id].class_id
            subject_of(a) == assessments[a].subject_id
            rows          == joined_performances(
                                IF resp.op = "get_student_performance_details"
                                THEN resp.target ELSE without(resp.target, "student_id"))
        IN \A p \in rows :
              classes[class_of(p)].class_teacher_id # resp.caller =>
                 LET key == IF resp.op = "get_student_performance_details" THEN p
                            ELSE <<class_of(p), performances[p].assessment_id>>
                 IN key \in DOMAIN resp.out <=>
                        taught_apart(resp.caller, class_of(p),
                                     subject_of(performances[p].assessment_id))

\* the teacher sees a row of class 2 and subject 2, holding an assignment for
\* subject 2 and one for class 2 but none for subject 2 in class 2
C26_Witness ==
    /\ resp.op = "get_student_performance_details"
    /\ resp.status = 200
    /\ resp.caller = 3
    /\ \E p \in DOMAIN resp.out :
            /\ resp.out[p].class_id = 2
            /\ assessments[resp.out[p].assessment_id].subject_id = 2
    /\ ~\E a \in DOMAIN teacher_subjects :
            teacher_subjects[a].class_id = 2 /\ teacher_subjects[a].subject_id = 2


-----------------------------------------------------------------------------
(* Claims on the recorder of a row.                                        *)

\* a request changed the table from `old` to `new`: a row that stays keeps
\* its recorder, a row that is new was created by `create` and has the
\* caller of the request as its recorder
recorder_kept(old, new, create) ==
    /\ \A i \in DOMAIN old \cap DOMAIN new : new[i].recorded_by = old[i].recorded_by
    /\ \A i \in DOMAIN new \ DOMAIN old :
            /\ resp'.op = create
            /\ resp'.status = 201
            /\ new[i].recorded_by = resp'.caller

\* C27: the recorded_by of a StudentPerformance and of an AttendanceSession
\* is the caller who created the row, whatever recorded_by the body of the
\* create request names, and no later request changes it, an update by a
\* headteacher or an admin included.
C27_RecorderIsCreator ==
    [][/\ recorder_kept(performances, performances', "create_performance")
       /\ recorder_kept(sessions, sessions', "create_attendance_session")]_vars

\* the headteacher has updated the score of the teacher's performance with a
\* body that names the headteacher as recorder, beside a session the second
\* teacher created with a body that names the first
C27_Witness ==
    /\ resp.op = "update_performance"
    /\ resp.status = 200
    /\ resp.caller = 2
    /\ performances[1].score = 45
    /\ performances[1].recorded_by = 3
    /\ \E s \in DOMAIN sessions : sessions[s].recorded_by = 5


-----------------------------------------------------------------------------
(* Claims on the replacement of a session's records.                       *)

\* the records of a session in the order of their ids, as request records
session_records(table, session_id) ==
    LET ids == refs(table, "session_id", session_id)
        in_order == CHOOSE q \in [1..Cardinality(ids) -> ids] :
                        \A i, j \in 1..Cardinality(ids) : i < j => q[i] < q[j]
    IN [i \in 1..Cardinality(ids) |->
            attendance_record(table[in_order[i]].student_id, table[in_order[i]].status)]

\* C28: update_attendance_session with a 'records' list replaces the
\* session's records in one step: after a success the session's records are
\* the supplied list and nothing else, and the records of the other sessions
\* are as before; a request that fails, wherever it fails, leaves the session
\* and all the records as they were.
C28_RecordsReplaced ==
    [][\A caller \in DOMAIN users, session_id \in DOMAIN sessions, list \in record_lists,
          date \in opt("date", {"2024-1-16", "15/01/2024"}) :
          update_attendance_session(caller, session_id, date @@ ("records" :> list)) =>
             IF resp'.status = 200
             THEN /\ session_records(records', session_id) = list
                  /\ \A s \in DOMAIN sessions \ {session_id} :
                        /\ refs(records', "session_id", s) = refs(records, "session_id", s)
                        /\ \A r \in refs(records, "session_id", s) : records'[r] = records[r]
                  /\ \A r \in DOMAIN records' :
                        records'[r].session_id \in DOMAIN sessions
             ELSE UNCHANGED <<sessions, records>>]_vars

\* the headteacher has replaced the record of a session of class 2 (late) by
\* another (absent) while a second session keeps its record
C28_Witness ==
    /\ resp.op = "update_attendance_session"
    /\ resp.status = 200
    /\ resp.caller = 2
    /\ session_records(records, resp.target) = <<attendance_record(2, "absent")>>
    /\ \E s \in DOMAIN sessions \ {resp.target} : refs(records, "session_id", s) # {}


-----------------------------------------------------------------------------
(* Claims on the deletion of a user.                                       *)

\* C29: no delete_user request, of user.py or of admin.py, removes the row
\* of its caller: a request for the caller's own id is rejected and leaves
\* the store as it was, and the caller of a delete is a user after it.
C29_NoSelfDelete ==
    [][resp'.op \in {"delete_user", "admin_delete_user"} =>
          /\ resp'.caller \in DOMAIN users => resp'.caller \in DOMAIN users'
          /\ resp'.target = resp'.caller => (resp'.status # 200 /\ UNCHANGED store)]_vars

\* the admin, having deleted the parent, asked for the deletion of the
\* admin's own account and was refused
C29_Witness ==
    /\ resp.op \in {"delete_user", "admin_delete_user"}
    /\ resp.caller = 1
    /\ resp.target = 1
    /\ resp.status = 400
    /\ 1 \in DOMAIN users
    /\ 4 \notin DOMAIN users


-----------------------------------------------------------------------------
(* Claims on the access to the progress report of a student.               *)

\* C30: get_student_progress_report, asked by a user for an existing student
\* whose class exists, answers 403 exactly when the caller has the role
\* teacher and is neither the class teacher of the student's class nor the
\* holder of an assignment for that class; a caller of any other role is
\* never refused, whatever the role and whoever the student
C30_ProgressReportAccess ==
    (/\ resp.op = "get_student_progress_report"
     /\ resp.caller \in DOMAIN users
     /\ resp.target \in DOMAIN students
     /\ students[resp.target].class_id \in DOMAIN classes)
    => LET class_id == students[resp.target].class_id
           is_class_teacher == classes[class_id].class_teacher_id = resp.caller
           teaches_subject == \E a \in DOMAIN teacher_subjects :
                                   /\ teacher_subjects[a].teacher_id = resp.caller
                                   /\ teacher_subjects[a].class_id = class_id
       IN /\ (resp.status = 403) <=>
                  (/\ users[resp.caller].role = "teacher"
                   /\ ~(is_class_teacher \/ teaches_subject))
          /\ users[resp.caller].role # "teacher" => resp.status \in {200, 500}

\* the teacher, who teaches in class 2 and is the class teacher of class 1
\* only, reads the report of a student of class 2
C30_Witness ==
    /\ resp.op = "get_student_progress_report"
    /\ resp.caller = 3
    /\ resp.target = 2
    /\ resp.status = 200
    /\ classes[students[2].class_id].class_teacher_id # 3
    /\ \E a \in DOMAIN teacher_subjects :
            teacher_subjects[a].teacher_id = 3 /\ teacher_subjects[a].class_id = 2

====
